---- MODULE Spec2Model ----
(***************************************************************************)
(* Game-state engine of the dominoes application: the pure rule functions  *)
(* of utils/gameUtils, the GameContext provider (makeMove, startNewRound,  *)
(* drawFromBoneyard) and the computer-turn timers of GamePage.             *)
(*                                                                         *)
(* React closures: a handler created in one render sees the gameState of   *)
(* that render.  A timer callback therefore carries the GameState of the   *)
(* render that scheduled it (a snapshot), and its makeMove writes a state   *)
(* computed from that snapshot.                                            *)
(***************************************************************************)
EXTENDS Integers, Sequences, FiniteSets, TLC

\* ---------------------------------------------------------------- bounds
\* the longest array given to shuffleArray, besides the 28-tile sets
ShuffleLen == 3
\* tiles per hand with at most two players (7 in the program)
TilesPerPlayerTwo == 3
\* tiles per hand with three or four players (6 in the program)
TilesPerPlayerMany == 2
\* rounds explored per game
MaxRound == 2
\* settings.targetScore (200..500 in the program)
TargetScore == 3
\* tiles per hand of the arbitrary deals given to the rule functions
RulesHand == 2
\* tiles on the arbitrary boards given to the rule functions
RulesBoard == 2

\* ---------------------------------------------------------------- program constants
LcgMul == 9301
LcgInc == 49297
LcgMod == 233280
\* the highest pip value of the program's set
FullPip == 6
\* shuffleArray's seed when the argument is left out
Undefined == -1
\* the program's hand sizes: two players, three or four players
FullPerTwo == 7
FullPerMany == 6

\* the pip values of the set (0..6, 28 tiles, in the program): 10 tiles
PipValues == 0..3
MaxPip == CHOOSE m \in PipValues : \A q \in PipValues : q <= m
\* settings.computerCount of the games explored: the user against one or two computers
ComputerCounts == {1, 2}

\* the streams Math.random may produce: the LCG streams of these seeds
Seeds == {1, 2}
Positions == {"left", "right"}
Difficulties == {"easy", "medium", "hard"}
\* makeMove's tileId '' (the pass signal); tile ids are 0..TileCount-1
PassId == -1

\* ---------------------------------------------------------------- sequences
RECURSIVE SeqSum(_)
SeqSum(s) == IF s = <<>> THEN 0 ELSE Head(s) + SeqSum(Tail(s))

\* Array.prototype.slice(from, to) with 0-based, end-exclusive indices
Slice(s, from, to) ==
  LET lo == IF from > Len(s) THEN Len(s) ELSE from
      hi == IF to > Len(s) THEN Len(s) ELSE to
  IN  IF hi <= lo THEN <<>> ELSE SubSeq(s, lo + 1, hi)

\* Array.prototype.findIndex, 0-based, -1 when absent; found[i] tells whether
\* the callback accepts the i-th element
FindIndex(found) ==
  IF \E i \in 1..Len(found) : found[i]
  THEN (CHOOSE i \in 1..Len(found) : found[i] /\ \A j \in 1..(i - 1) : ~found[j]) - 1
  ELSE -1

Min(S) == CHOOSE x \in S : \A y \in S : x <= y

\* ---------------------------------------------------------------- tiles
TileCount == ((MaxPip + 1) * (MaxPip + 2)) \div 2

\* the loops of createDominoSet from (left, right) on, id being the counter:
\* for (left = 0; left <= 6; left++) for (right = left; right <= 6; right++) push
RECURSIVE PushTilesFromRight(_, _, _, _)
\* faulty variant: the inner loop starts one past left, so no double is pushed
PushTilesFromRight(left, right, id, maxPip) ==
  IF left > maxPip THEN <<>>
  ELSE IF right > maxPip THEN PushTilesFromRight(left + 1, left + 2, id, maxPip)
  ELSE <<[id |-> id, leftDots |-> left, rightDots |-> right, isDouble |-> (left = right)]>>
         \o PushTilesFromRight(left, right + 1, id + 1, maxPip)

RECURSIVE PushTiles(_, _, _, _)
PushTiles(left, right, id, maxPip) ==
  IF left > maxPip THEN <<>>
  ELSE IF right > maxPip THEN PushTiles(left + 1, left + 1, id, maxPip)
  ELSE <<[id |-> id, leftDots |-> left, rightDots |-> right, isDouble |-> (left = right)]>>
         \o PushTiles(left, right + 1, id + 1, maxPip)

\* the tiles in the order createDominoSet pushes them
OrderedTiles == PushTiles(0, 0, 0, MaxPip)

AllTileIds == 0..(TileCount - 1)

\* ---------------------------------------------------------------- shuffle
\* seededRandom: seedValue = (seedValue * 9301 + 49297) % 233280
\* (the product is taken in two factors, 9301 = 93 * 100 + 1, to stay within 32 bits)
LcgNext(seedValue) ==
  LET hi == LcgMul \div 100
      lo == LcgMul % 100
  IN  (((((seedValue * hi) % LcgMod) * 100) % LcgMod) + (seedValue * lo) + LcgInc) % LcgMod

Swap(s, i, j) == [s EXCEPT ![i] = s[j], ![j] = s[i]]

\* for (i = length - 1; i > 0; i--) { j = floor(random() * (i + 1)); swap(i, j) }
\* with random() = seedValue / 233280; i is the 0-based index of the source
RECURSIVE FisherYates(_, _, _)
FisherYates(s, i, seedValue) ==
  IF i <= 0 THEN s
  ELSE LET v == LcgNext(seedValue)
           j == (v * (i + 1)) \div LcgMod
       IN  FisherYates(Swap(s, i + 1, j + 1), i - 1, v)

\* the generator's state after n draws
RECURSIVE LcgAfter(_, _)
LcgAfter(seedValue, n) == IF n <= 0 THEN seedValue ELSE LcgAfter(LcgNext(seedValue), n - 1)

\* shuffleArray(array, seed); without a seed the source draws from Math.random,
\* whose stream is taken to be the LCG stream in state seed
shuffleArray(array, seed) == FisherYates(array, Len(array) - 1, seed)

\* the call shuffleArray(array, seed) where Math.random's stream is in state random and
\* seed is Undefined when the argument is left out: the copy shuffled: [...array] is
\* returned, array is what the caller's array holds afterwards, random the stream's state
\* faulty variant: the seeded branch draws from Math.random as the unseeded one does
shuffleArrayCallUnseeded(array, seed, random) ==
  [shuffled |-> shuffleArray(array, random),
   array |-> array,
   random |-> LcgAfter(random, Len(array) - 1)]

shuffleArrayCall(array, seed, random) ==
  IF seed # Undefined
  THEN [shuffled |-> shuffleArray(array, seed), array |-> array, random |-> random]
  ELSE [shuffled |-> shuffleArray(array, random),
        array |-> array,
        random |-> LcgAfter(random, Len(array) - 1)]

\* shuffleTiles draws from Math.random as well
shuffleTiles(tiles, seed) == FisherYates(tiles, Len(tiles) - 1, seed)

createDominoSet(seed) == shuffleTiles(OrderedTiles, seed)

\* createDominoSet at the size of the program, pips 0..6
createFullDominoSet(seed) == shuffleTiles(PushTiles(0, 0, 0, FullPip), seed)

FullDominoSets == [seed \in Seeds |-> createFullDominoSet(seed)]

\* shuffleArray(createDominoSet()): the second shuffle continues the stream of the first
dominoSets ==
  [seed \in Seeds |-> shuffleArray(createDominoSet(seed), LcgAfter(seed, TileCount - 1))]

\* ---------------------------------------------------------------- rules
\* faulty variant: only the left halves are counted
calculateHandScoreLeftOnly(hand) ==
  SeqSum([i \in 1..Len(hand) |-> hand[i].leftDots])

calculateHandScore(hand) ==
  SeqSum([i \in 1..Len(hand) |-> hand[i].leftDots + hand[i].rightDots])

\* faulty variant: only the tile's left half is compared with the right end
canPlayTileLeftHalf(tile, board) ==
  IF Len(board) = 0 THEN TRUE
  ELSE \/ tile.leftDots = board[1].leftDots
       \/ tile.rightDots = board[1].leftDots
       \/ tile.leftDots = board[Len(board)].rightDots

canPlayTile(tile, board) ==
  IF Len(board) = 0 THEN TRUE
  ELSE LET leftEnd == board[1].leftDots
           rightEnd == board[Len(board)].rightDots
       IN  \/ tile.leftDots = leftEnd
           \/ tile.rightDots = leftEnd
           \/ tile.leftDots = rightEnd
           \/ tile.rightDots = rightEnd

\* faulty variant: both ends are offered whatever the tile
getPlayablePositionsBothEnds(tile, board) == <<"left", "right">>

getPlayablePositions(tile, board) ==
  IF Len(board) = 0 THEN <<"left">>
  ELSE LET leftEnd == board[1].leftDots
           rightEnd == board[Len(board)].rightDots
           l == IF tile.leftDots = leftEnd \/ tile.rightDots = leftEnd THEN <<"left">> ELSE <<>>
           r == IF tile.leftDots = rightEnd \/ tile.rightDots = rightEnd THEN <<"right">> ELSE <<>>
       IN  l \o r

\* null is modelled as "none"
getPlayablePosition(tile, board) ==
  LET positions == getPlayablePositions(tile, board)
  IN  IF Len(positions) > 0 THEN positions[1] ELSE "none"

Includes(s, x) == \E i \in 1..Len(s) : s[i] = x

Flipped(tile) == [tile EXCEPT !.leftDots = tile.rightDots, !.rightDots = tile.leftDots]

\* faulty variant: the tile is placed as held, never flipped
orientTileAsHeld(tile, board, position) == tile

orientTileForPlacement(tile, board, position) ==
  IF Len(board) = 0 THEN tile
  ELSE IF position = "left"
       THEN LET leftEnd == board[1].leftDots
            IN  IF tile.rightDots = leftEnd THEN tile
                ELSE IF tile.leftDots = leftEnd THEN Flipped(tile)
                ELSE tile
       ELSE LET rightEnd == board[Len(board)].rightDots
            IN  IF tile.leftDots = rightEnd THEN tile
                ELSE IF tile.rightDots = rightEnd THEN Flipped(tile)
                ELSE tile

playerHasPlayableTile(player, board) ==
  \E i \in 1..Len(player.hand) : canPlayTile(player.hand[i], board)

CurrentPlayer(g) == g.players[g.currentPlayerIndex + 1]

\* faulty variant: the play is applied but the turn stays with the mover
playTileKeepsTurn(g, tileId, position) ==
  LET currentPlayer == CurrentPlayer(g)
      HasId(t) == t.id = tileId
      NotId(t) == t.id # tileId
      tileIndex == FindIndex([k \in 1..Len(currentPlayer.hand) |-> HasId(currentPlayer.hand[k])])
  IN  IF tileIndex = -1 THEN g
      ELSE LET tile == currentPlayer.hand[tileIndex + 1]
           IN  IF ~canPlayTile(tile, g.board) THEN g
               ELSE IF ~Includes(getPlayablePositions(tile, g.board), position) THEN g
               ELSE LET orientedTile == orientTileForPlacement(tile, g.board, position)
                    IN  [g EXCEPT !.players[g.currentPlayerIndex + 1].hand =
                                     SelectSeq(currentPlayer.hand, NotId),
                                  !.board = IF position = "left"
                                            THEN <<orientedTile>> \o g.board
                                            ELSE Append(g.board, orientedTile)]

playTile(g, tileId, position) ==
  LET currentPlayer == CurrentPlayer(g)
      HasId(t) == t.id = tileId
      NotId(t) == t.id # tileId
      tileIndex == FindIndex([k \in 1..Len(currentPlayer.hand) |-> HasId(currentPlayer.hand[k])])
  IN  IF tileIndex = -1 THEN g
      ELSE LET tile == currentPlayer.hand[tileIndex + 1]
           IN  IF ~canPlayTile(tile, g.board) THEN g
               ELSE IF ~Includes(getPlayablePositions(tile, g.board), position) THEN g
               ELSE LET newHand == SelectSeq(currentPlayer.hand, NotId)
                        orientedTile == orientTileForPlacement(tile, g.board, position)
                        newBoard == IF position = "left"
                                    THEN <<orientedTile>> \o g.board
                                    ELSE Append(g.board, orientedTile)
                        newPlayers == [i \in 1..Len(g.players) |->
                                         IF i - 1 = g.currentPlayerIndex
                                         THEN [g.players[i] EXCEPT !.hand = newHand]
                                         ELSE g.players[i]]
                        nextPlayerIndex == (g.currentPlayerIndex + 1) % Len(g.players)
                    IN  [g EXCEPT !.players = newPlayers,
                                  !.board = newBoard,
                                  !.currentPlayerIndex = nextPlayerIndex]

\* faulty variant: a block ends the round even while the boneyard holds tiles
isRoundOverIgnoringBoneyard(g) ==
  \/ \E i \in 1..Len(g.players) : Len(g.players[i].hand) = 0
  \/ ~(\E i \in 1..Len(g.players) : playerHasPlayableTile(g.players[i], g.board))

isRoundOver(g) ==
  IF \E i \in 1..Len(g.players) : Len(g.players[i].hand) = 0 THEN TRUE
  ELSE LET playersCanPlay == \E i \in 1..Len(g.players) : playerHasPlayableTile(g.players[i], g.board)
       IN  ~playersCanPlay /\ Len(g.boneyard) = 0

isGameOver(g) == \E i \in 1..Len(g.players) : g.players[i].score >= g.targetScore

\* Array.prototype.find over the players: the index (1-based) of the first match, 0 when none
FindPlayer(found) == FindIndex(found) + 1

\* faulty variant: a blocked table is looked for first, and goes to the lowest pip
\* sum among the players still holding tiles
getRoundWinnerBlockedFirst(g) ==
  LET EmptyHand(p) == Len(p.hand) = 0
      holding == {i \in 1..Len(g.players) : ~EmptyHand(g.players[i])}
      blocked == /\ Len(g.boneyard) = 0
                 /\ \A i \in 1..Len(g.players) : ~playerHasPlayableTile(g.players[i], g.board)
      lowestScore == Min({calculateHandScore(g.players[i].hand) : i \in holding})
      Lowest(p) == ~EmptyHand(p) /\ calculateHandScore(p.hand) = lowestScore
  IN  IF blocked /\ holding # {}
      THEN FindPlayer([k \in 1..Len(g.players) |-> Lowest(g.players[k])])
      ELSE FindPlayer([k \in 1..Len(g.players) |-> EmptyHand(g.players[k])])

\* faulty variant: a blocked round goes to the last player holding the lowest pip sum
getRoundWinnerLastLowest(g) ==
  LET Empty == {i \in 1..Len(g.players) : Len(g.players[i].hand) = 0}
      lowestScore == Min({calculateHandScore(g.players[i].hand) : i \in 1..Len(g.players)})
      Lowest == {i \in 1..Len(g.players) : calculateHandScore(g.players[i].hand) = lowestScore}
  IN  IF Empty # {} THEN Min(Empty)
      ELSE CHOOSE i \in Lowest : \A j \in Lowest : j <= i

\* returns the index of the winning player in g.players (0 stands for null)
getRoundWinner(g) ==
  LET EmptyHand(p) == Len(p.hand) = 0
      emptyHandPlayer == FindPlayer([k \in 1..Len(g.players) |-> EmptyHand(g.players[k])])
  IN  IF emptyHandPlayer # 0 THEN emptyHandPlayer
      ELSE LET lowestScore == Min({calculateHandScore(g.players[i].hand) : i \in 1..Len(g.players)})
               Lowest(p) == calculateHandScore(p.hand) = lowestScore
           IN  FindPlayer([k \in 1..Len(g.players) |-> Lowest(g.players[k])])

\* faulty variant: the player who crossed the target first in player order wins
getGameWinnerWhoCrossed(g) ==
  IF ~(\E i \in 1..Len(g.players) : g.players[i].score >= g.targetScore) THEN 0
  ELSE Min({i \in 1..Len(g.players) : g.players[i].score >= g.targetScore})

getGameWinner(g) ==
  IF ~(\E i \in 1..Len(g.players) : g.players[i].score >= g.targetScore) THEN 0
  ELSE LET lowestScore == Min({g.players[i].score : i \in 1..Len(g.players)})
           Lowest(p) == p.score = lowestScore
       IN  FindPlayer([k \in 1..Len(g.players) |-> Lowest(g.players[k])])

\* faulty variant: the winner is charged for a remaining hand like everyone else
calculateRoundScoringChargesAll(g, roundWinner) ==
  [i \in 1..Len(g.players) |->
     [g.players[i] EXCEPT !.score = g.players[i].score + calculateHandScore(g.players[i].hand)]]

\* roundWinner is a player object; the scoring matches on its id
calculateRoundScoring(g, roundWinner) ==
  [i \in 1..Len(g.players) |->
     [g.players[i] EXCEPT !.score =
        IF g.players[i].id = roundWinner.id
        THEN g.players[i].score
        ELSE g.players[i].score + calculateHandScore(g.players[i].hand)]]

\* the tiles in the order players.forEach / hand.forEach visit them, each with the
\* index of its player
RECURSIVE EachTile(_, _)
EachTile(players, i) ==
  IF i > Len(players) THEN <<>>
  ELSE [k \in 1..Len(players[i].hand) |-> [index |-> i - 1, tile |-> players[i].hand[k]]]
         \o EachTile(players, i + 1)

\* first pass of findStartingPlayer: the highest double
RECURSIVE ScanDoubles(_, _, _)
ScanDoubles(cells, highestDouble, startingPlayerIndex) ==
  IF cells = <<>>
  THEN [highestDouble |-> highestDouble, startingPlayerIndex |-> startingPlayerIndex]
  ELSE IF Head(cells).tile.isDouble /\ Head(cells).tile.leftDots > highestDouble
       THEN ScanDoubles(Tail(cells), Head(cells).tile.leftDots, Head(cells).index)
       ELSE ScanDoubles(Tail(cells), highestDouble, startingPlayerIndex)

\* second pass: the highest pip count
RECURSIVE ScanPips(_, _, _)
ScanPips(cells, highestPips, startingPlayerIndex) ==
  IF cells = <<>> THEN startingPlayerIndex
  ELSE LET pips == Head(cells).tile.leftDots + Head(cells).tile.rightDots
       IN  IF pips > highestPips
           THEN ScanPips(Tail(cells), pips, Head(cells).index)
           ELSE ScanPips(Tail(cells), highestPips, startingPlayerIndex)

\* faulty variant: a later tile of equal pip count takes over
findStartingPlayerLastMet(players) ==
  LET cells == EachTile(players, 1)
      C(n) == cells[n]
      IsBest(n) == \A m \in 1..Len(cells) :
                     C(m).tile.leftDots + C(m).tile.rightDots
                       <= C(n).tile.leftDots + C(n).tile.rightDots
      doubles == ScanDoubles(cells, -1, 0)
  IN  IF doubles.highestDouble # -1 THEN doubles.startingPlayerIndex
      ELSE IF cells = <<>> THEN 0
      ELSE C(CHOOSE n \in 1..Len(cells) :
               IsBest(n) /\ \A m \in (n + 1)..Len(cells) : ~IsBest(m)).index

findStartingPlayer(players) ==
  LET cells == EachTile(players, 1)
      doubles == ScanDoubles(cells, -1, 0)
  IN  IF doubles.highestDouble = -1
      THEN ScanPips(cells, -1, doubles.startingPlayerIndex)
      ELSE doubles.startingPlayerIndex

\* ---------------------------------------------------------------- GameContext
NullState ==
  [players |-> <<>>, currentPlayerIndex |-> 0, board |-> <<>>, boneyard |-> <<>>,
   gameStatus |-> "null", targetScore |-> 0, round |-> 0, winner |-> 0]

\* gameUtils.dealTiles(tiles, playerCount) with the hand sizes perTwo (7) and perMany (6)
\* faulty variant: the boneyard starts one hand early, so it repeats the last hand
gameUtilsDealTilesShortCut(tiles, playerCount, perTwo, perMany) ==
  LET tilesPerPlayer == IF playerCount = 2 THEN perTwo ELSE perMany
  IN  [hands |-> [i \in 1..playerCount |->
                    Slice(tiles, (i - 1) * tilesPerPlayer, i * tilesPerPlayer)],
       boneyard |-> Slice(tiles, (playerCount - 1) * tilesPerPlayer, Len(tiles))]

gameUtilsDealTiles(tiles, playerCount, perTwo, perMany) ==
  LET tilesPerPlayer == IF playerCount = 2 THEN perTwo ELSE perMany
  IN  [hands |-> [i \in 1..playerCount |->
                    Slice(tiles, (i - 1) * tilesPerPlayer, i * tilesPerPlayer)],
       boneyard |-> Slice(tiles, playerCount * tilesPerPlayer, Len(tiles))]

\* GameContext.dealTiles(players, dominoSet) with the hand sizes perTwo (7) and perMany (6)
contextDealTiles(players, dominoSet, perTwo, perMany) ==
  LET tilesPerPlayer == IF Len(players) <= 2 THEN perTwo ELSE perMany
      totalTilesDealt == Len(players) * tilesPerPlayer
  IN  [updatedPlayers |->
         [i \in 1..Len(players) |->
            [players[i] EXCEPT !.hand = Slice(dominoSet, (i - 1) * tilesPerPlayer, i * tilesPerPlayer)]],
       remainingTiles |-> Slice(dominoSet, totalTilesDealt, Len(dominoSet))]

\* GameContext.dealTiles at the hand sizes of the games explored
dealTiles(players, dominoSet) ==
  contextDealTiles(players, dominoSet, TilesPerPlayerTwo, TilesPerPlayerMany)

\* the user and createComputerPlayers(count); ids 1 (the user), 2.. (cpu-1, ...)
UserId == 1

NewPlayers(computerCount) ==
  [i \in 1..(1 + computerCount) |->
     [id |-> i, hand |-> <<>>, score |-> 0, isComputer |-> (i # UserId)]]

startNewGame(computerCount, seed) ==
  LET dominoSet == dominoSets[seed]
      dealt == dealTiles(NewPlayers(computerCount), dominoSet)
  IN  [players |-> dealt.updatedPlayers, currentPlayerIndex |-> 0, board |-> <<>>,
       boneyard |-> dealt.remainingTiles, gameStatus |-> "playing",
       targetScore |-> TargetScore, round |-> 1, winner |-> 0]

\* ---------------------------------------------------------------- SettingsPage
\* the player counts of a game: two to four
PlayerCounts == {2, 3, 4}

\* defaultSettings of the settings page (targetScore and difficulty are kept elsewhere)
defaultSettings == [playerCount |-> 2, hasComputerPlayers |-> TRUE, computerCount |-> 1]

\* updateLocalSetting(key, value) applied to prev
updateLocalSetting(prev, key, value) ==
  LET updated == [prev EXCEPT ![key] = value]
  IN  IF key = "hasComputerPlayers"
      THEN [updated EXCEPT !.computerCount =
              IF value THEN Min({1, updated.playerCount - 1}) ELSE 0]
      ELSE IF key = "playerCount"
      THEN [updated EXCEPT !.computerCount = Min({updated.computerCount, value - 1})]
      ELSE updated

\* the count startNewGame passes to createComputerPlayers: settings.computerCount || 1
\* when settings.hasComputerPlayers, and no computer player otherwise
computerPlayersOf(settings) ==
  IF ~settings.hasComputerPlayers THEN 0
  ELSE IF settings.computerCount = 0 THEN 1
  ELSE settings.computerCount

\* startNewGame(settings)
startNewGameWith(settings, seed) == startNewGame(computerPlayersOf(settings), seed)

\* startMultiplayerGame: one Player per room player, none of them a computer
RoomPlayers(count) ==
  [i \in 1..count |-> [id |-> i, hand |-> <<>>, score |-> 0, isComputer |-> FALSE]]

\* the GameState startMultiplayerGame builds for a room of count players where Math.random's
\* stream is in state random: dealTiles(players, shuffleArray(createDominoSet(), seed)).
\* seed is the number in the room id (src/src/index.css) or Undefined (GameContext.tsx,
\* which calls shuffleArray(createDominoSet())); createDominoSet draws from Math.random first
multiplayerGameState(count, seed, random) ==
  LET call == shuffleArrayCall(createDominoSet(random), seed, LcgAfter(random, TileCount - 1))
      dealt == dealTiles(RoomPlayers(count), call.shuffled)
  IN  [players |-> dealt.updatedPlayers, currentPlayerIndex |-> 0, board |-> <<>>,
       boneyard |-> dealt.remainingTiles, gameStatus |-> "playing",
       targetScore |-> TargetScore, round |-> 1, winner |-> 0]

\* faulty variant: the new round keeps the turn pointer of the finished round
startNewRoundKeepsTurn(g, seed) ==
  LET dealt == dealTiles(g.players, dominoSets[seed])
  IN  [g EXCEPT !.players = dealt.updatedPlayers,
                !.board = <<>>,
                !.boneyard = dealt.remainingTiles,
                !.round = g.round + 1,
                !.gameStatus = "playing"]

startNewRound(g, seed) ==
  LET dominoSet == dominoSets[seed]
      dealt == dealTiles(g.players, dominoSet)
      startingPlayerIndex == findStartingPlayer(dealt.updatedPlayers)
  IN  [g EXCEPT !.players = dealt.updatedPlayers,
                !.board = <<>>,
                !.boneyard = dealt.remainingTiles,
                !.currentPlayerIndex = startingPlayerIndex,
                !.round = g.round + 1,
                !.gameStatus = "playing"]

\* the state makeMove passes to setGameState, or g itself when it returns early
makeMove(g, tileId, position, seed) ==
  IF g.gameStatus # "playing" THEN g
  ELSE IF tileId = PassId
  THEN [g EXCEPT !.currentPlayerIndex = (g.currentPlayerIndex + 1) % Len(g.players)]
  ELSE LET currentPlayer == CurrentPlayer(g)
           HasId(t) == t.id = tileId
           tileIndex == FindIndex([k \in 1..Len(currentPlayer.hand) |-> HasId(currentPlayer.hand[k])])
       IN  IF tileIndex = -1 THEN g
           ELSE LET tile == currentPlayer.hand[tileIndex + 1]
                IN  IF ~canPlayTile(tile, g.board) THEN g
                    ELSE IF ~Includes(getPlayablePositions(tile, g.board), position) THEN g
                    ELSE LET newGameState == playTile(g, tileId, position)
                         IN  IF isRoundOver(newGameState) /\ getRoundWinner(newGameState) # 0
                             THEN LET roundWinner == newGameState.players[getRoundWinner(newGameState)]
                                      updatedPlayers == calculateRoundScoring(newGameState, roundWinner)
                                      scored == [newGameState EXCEPT !.players = updatedPlayers]
                                      gameWinner == getGameWinner(scored)
                                  IN  IF gameWinner # 0
                                      THEN [scored EXCEPT !.gameStatus = "finished",
                                                          !.winner = updatedPlayers[gameWinner].id]
                                      ELSE startNewRound(scored, seed)
                             ELSE newGameState

\* makeMove reaches startNewRound (and so draws a new shuffle)
dealsNewRound(g, tileId, position) ==
  /\ g.gameStatus = "playing"
  /\ tileId # PassId
  /\ LET newGameState == playTile(g, tileId, position)
     IN  /\ newGameState # g
         /\ isRoundOver(newGameState)
         /\ getRoundWinner(newGameState) # 0
         /\ getGameWinner([newGameState EXCEPT !.players =
               calculateRoundScoring(newGameState, newGameState.players[getRoundWinner(newGameState)])]) = 0

\* the shuffles a call of makeMove can see
SeedsFor(g, tileId, position) == IF dealsNewRound(g, tileId, position) THEN Seeds ELSE {1}

\* faulty variant: the drawn tile is appended to the hand and left in the boneyard
drawFromBoneyardKeepsTile(g) ==
  IF g.gameStatus # "playing" \/ Len(g.boneyard) = 0 THEN g
  ELSE [g EXCEPT !.players[g.currentPlayerIndex + 1].hand = Append(@, g.boneyard[1]),
                 !.currentPlayerIndex = (g.currentPlayerIndex + 1) % Len(g.players)]

drawFromBoneyard(g) ==
  IF g.gameStatus # "playing" \/ Len(g.boneyard) = 0 THEN g
  ELSE LET playerId == CurrentPlayer(g).id
           IsPlayer(p) == p.id = playerId
           playerIndex == FindIndex([k \in 1..Len(g.players) |-> IsPlayer(g.players[k])])
       IN  IF playerIndex = -1 \/ playerIndex # g.currentPlayerIndex THEN g
           ELSE LET drawnTile == g.boneyard[1]
                    updatedPlayers == [g.players EXCEPT ![playerIndex + 1].hand = Append(@, drawnTile)]
                    nextPlayerIndex == (g.currentPlayerIndex + 1) % Len(g.players)
                IN  [g EXCEPT !.players = updatedPlayers,
                              !.boneyard = Tail(g.boneyard),
                              !.currentPlayerIndex = nextPlayerIndex]

\* ---------------------------------------------------------------- GamePage
\* the tiles handleComputerMove may select from playableTiles
BestOf(tiles) ==
  \* reduce((best, tile) => pips(tile) > pips(best) ? tile : best): the first maximum
  LET Pips(t) == t.leftDots + t.rightDots
      k == CHOOSE i \in 1..Len(tiles) :
             /\ \A j \in 1..Len(tiles) : Pips(tiles[j]) <= Pips(tiles[i])
             /\ \A j \in 1..(i - 1) : Pips(tiles[j]) < Pips(tiles[i])
  IN  tiles[k]

\* faulty variant: hard chooses as medium does, without preferring doubles
selectedTilesNoDoubles(playableTiles, difficulty) ==
  IF difficulty = "easy" THEN {playableTiles[i] : i \in 1..Len(playableTiles)}
  ELSE {BestOf(playableTiles)}

selectedTiles(playableTiles, difficulty) ==
  LET IsDouble(t) == t.isDouble
      doubles == SelectSeq(playableTiles, IsDouble)
  IN  IF difficulty = "easy" THEN {playableTiles[i] : i \in 1..Len(playableTiles)}
      ELSE IF difficulty = "medium" THEN {BestOf(playableTiles)}
      ELSE IF Len(doubles) > 0 THEN {BestOf(doubles)}
      ELSE {BestOf(playableTiles)}

playableTilesOf(player, board) ==
  LET Playable(t) == canPlayTile(t, board)
  IN  SelectSeq(player.hand, Playable)

\* the dependencies of the computer-turn effect: gameState?.currentPlayerIndex, gameState?.gameStatus
EffectDeps(g) ==
  IF g.gameStatus = "null" THEN <<-1, "undefined">> ELSE <<g.currentPlayerIndex, g.gameStatus>>

\* the 1500 ms timer after a render: when the dependencies changed the cleanup
\* clears the pending timer and the effect schedules one for a computer player;
\* otherwise whatever is still pending stays, with the state of its own render
computerTurnEffect(old, new, pending) ==
  IF EffectDeps(new) = EffectDeps(old) THEN pending
  ELSE IF new.gameStatus = "playing" /\ CurrentPlayer(new).isComputer THEN <<new>>
  ELSE <<>>

\* ---------------------------------------------------------------- state
VARIABLES
  gameState,    \* GameContext: the GameState, NullState before a game starts
  difficulty,   \* gameSettings.difficulty
  selectedTile, \* GamePage: the id of the selected tile, NoTile for null
  moveTimer,    \* the pending 1500 ms computer-move timer: << >> or <<state of its render>>
  checkTimer,   \* the pending 500 ms post-draw timer: << >> or <<state of its render>>
  last,         \* the last GameContext operation: name, case, arguments, state before, state read
  localSettings, \* SettingsPage: the settings being edited (playerCount, hasComputerPlayers, computerCount)
  multiplayer   \* a multiplayer room and its participants; NoRoom outside multiplayer

vars == <<gameState, difficulty, selectedTile, moveTimer, checkTimer, last, localSettings, multiplayer>>

NoTile == -2

\* no multiplayer room: the game is played against the computer
NoRoom == [provider |-> "none"]

\* how a call makeMove(tileId, position) stands to the state g it reads, in the
\* terms of the rules: the tile is not in the current player's hand, it matches
\* neither open end, the position is not one of its playable positions, or it is legal
MoveCase(g, tileId, position) ==
  IF g.gameStatus # "playing" THEN "notPlaying"
  ELSE IF tileId = PassId THEN "pass"
  ELSE LET hand == CurrentPlayer(g).hand
           held == {i \in 1..Len(hand) : hand[i].id = tileId}
       IN  IF held = {} THEN "notInHand"
           ELSE LET tile == hand[CHOOSE i \in held : TRUE]
                    ends == IF g.board = <<>> THEN {tile.leftDots, tile.rightDots}
                            ELSE {g.board[1].leftDots, g.board[Len(g.board)].rightDots}
                    end == IF position = "left" THEN g.board[1].leftDots
                           ELSE g.board[Len(g.board)].rightDots
                IN  IF {tile.leftDots, tile.rightDots} \cap ends = {} THEN "noOpenEnd"
                    ELSE IF g.board = <<>> THEN (IF position = "left" THEN "legal" ELSE "rightOnEmpty")
                    ELSE IF end \notin {tile.leftDots, tile.rightDots} THEN "wrongEnd"
                    ELSE "legal"

IllegalCases == {"notInHand", "noOpenEnd", "wrongEnd", "rightOnEmpty"}

\* the record of an operation; the arguments are kept for the calls that are
\* legal moves, the others are told apart by their case
Op(name, tileId, position, snap) ==
  LET case == IF name \in {"makeMove", "pass"} THEN MoveCase(snap, tileId, position) ELSE name
  IN  [op |-> name, case |-> case,
       tileId |-> IF case = "legal" THEN tileId ELSE PassId,
       position |-> IF case = "legal" THEN position ELSE "left",
       pre |-> gameState, snap |-> snap]

Init ==
  /\ gameState = NullState
  /\ difficulty \in Difficulties
  /\ selectedTile = NoTile
  /\ localSettings = defaultSettings
  /\ moveTimer = <<>>
  /\ checkTimer = <<>>
  /\ last = [op |-> "init", case |-> "init", tileId |-> PassId, position |-> "left",
             pre |-> NullState, snap |-> NullState]
  /\ multiplayer = NoRoom

\* setGameState(new) followed by the render and its effects
SetGameState(new, pendingMove) ==
  /\ new.round <= MaxRound
  /\ gameState' = new
  /\ moveTimer' = computerTurnEffect(gameState, new, pendingMove)

\* settings page: startNewGame(settings)
StartNewGame ==
  /\ gameState.gameStatus = "null"
  /\ \E computerCount \in ComputerCounts, seed \in Seeds :
       SetGameState(startNewGame(computerCount, seed), moveTimer)
  /\ last' = Op("startNewGame", PassId, "left", gameState)
  /\ UNCHANGED <<difficulty, localSettings, multiplayer, selectedTile, checkTimer>>

\* handleTileClick(tileId)
HandleTileClick ==
  /\ gameState.gameStatus = "playing"
  /\ CurrentPlayer(gameState).id = UserId
  /\ \E i \in 1..Len(CurrentPlayer(gameState).hand) :
       LET tile == CurrentPlayer(gameState).hand[i]
       IN  /\ Len(gameState.board) = 0 \/ canPlayTile(tile, gameState.board)
           /\ selectedTile' = tile.id
  /\ UNCHANGED <<gameState, difficulty, localSettings, multiplayer, moveTimer, checkTimer, last>>

\* handlePositionClick(position): makeMove(selectedTile, position) with the closures
\* of the current render.  On an empty board only the left placement is offered;
\* otherwise both end buttons are rendered whenever a tile is selected.
HandlePositionClick ==
  /\ gameState.gameStatus # "null"
  /\ selectedTile # NoTile
  /\ \E position \in Positions :
       /\ Len(gameState.board) = 0 => position = "left"
       /\ \E seed \in SeedsFor(gameState, selectedTile, position) :
            SetGameState(makeMove(gameState, selectedTile, position, seed), moveTimer)
       /\ last' = Op("makeMove", selectedTile, position, gameState)
  /\ selectedTile' = NoTile
  /\ UNCHANGED <<difficulty, localSettings, multiplayer, checkTimer>>

\* handleDrawTile; the Draw button is rendered while boneyard.length > 0 && isUserTurn
HandleDrawTile ==
  /\ gameState.gameStatus # "null"
  /\ Len(gameState.boneyard) > 0
  /\ CurrentPlayer(gameState).id = UserId
  /\ SetGameState(drawFromBoneyard(gameState), moveTimer)
  /\ last' = Op("draw", PassId, "left", gameState)
  /\ UNCHANGED <<difficulty, localSettings, multiplayer, selectedTile, checkTimer>>

\* the 1500 ms timer fires: handleComputerMove of the render that scheduled it.
\* A 500 ms timer pending at that time was set earlier and has fired before.
\* First branch: some tile of the hand is playable.
ComputerPlay ==
  /\ moveTimer # <<>>
  /\ checkTimer = <<>>
  /\ LET g == moveTimer[1]
         playableTiles == playableTilesOf(CurrentPlayer(g), g.board)
     IN  /\ Len(playableTiles) > 0
         /\ \E tile \in selectedTiles(playableTiles, difficulty) :
              LET validPosition == getPlayablePosition(tile, g.board)
                  position == IF validPosition = "none" THEN "left" ELSE validPosition
              IN  \E seed \in SeedsFor(g, tile.id, position) :
                  /\ SetGameState(makeMove(g, tile.id, position, seed), <<>>)
                  /\ last' = Op("makeMove", tile.id, position, g)
  /\ UNCHANGED <<difficulty, localSettings, multiplayer, selectedTile, checkTimer>>

\* Second branch: no playable tile, boneyard not empty: draw, and set the 500 ms timer
ComputerDraw ==
  /\ moveTimer # <<>>
  /\ checkTimer = <<>>
  /\ LET g == moveTimer[1]
         playableTiles == playableTilesOf(CurrentPlayer(g), g.board)
     IN  /\ Len(playableTiles) = 0
         /\ Len(g.boneyard) > 0
         /\ SetGameState(drawFromBoneyard(g), <<>>)
         /\ checkTimer' = <<g>>
         /\ last' = Op("draw", PassId, "left", g)
  /\ UNCHANGED <<difficulty, localSettings, multiplayer, selectedTile>>

\* Third branch: no playable tile, boneyard empty: makeMove('', 'left')
ComputerPass ==
  /\ moveTimer # <<>>
  /\ checkTimer = <<>>
  /\ LET g == moveTimer[1]
         playableTiles == playableTilesOf(CurrentPlayer(g), g.board)
     IN  /\ Len(playableTiles) = 0
         /\ Len(g.boneyard) = 0
         /\ SetGameState(makeMove(g, PassId, "left", 1), <<>>)
         /\ last' = Op("pass", PassId, "left", g)
  /\ UNCHANGED <<difficulty, localSettings, multiplayer, selectedTile, checkTimer>>

\* the 500 ms timer set after the computer's draw fires, with the state of the render that drew
ComputerCheckAfterDraw ==
  /\ checkTimer # <<>>
  /\ LET g == checkTimer[1]
         updatedPlayer == CurrentPlayer(g)
         canPlay == \E i \in 1..Len(updatedPlayer.hand) : canPlayTile(updatedPlayer.hand[i], g.board)
     IN  IF ~canPlay
         THEN /\ SetGameState(makeMove(g, PassId, "left", 1), moveTimer)
              /\ last' = Op("pass", PassId, "left", g)
         ELSE UNCHANGED <<gameState, moveTimer, last>>
  /\ checkTimer' = <<>>
  /\ UNCHANGED <<difficulty, localSettings, multiplayer, selectedTile>>

Next ==
  \/ StartNewGame
  \/ HandleTileClick
  \/ HandlePositionClick
  \/ HandleDrawTile
  \/ ComputerPlay
  \/ ComputerDraw
  \/ ComputerPass
  \/ ComputerCheckAfterDraw

Spec == Init /\ [][Next]_vars

\* ---------------------------------------------------------------- leaving the game
\* GamePage's New Game button: resetGame(), then navigate('/settings').  The provider
\* sets the GameState to null; GamePage unmounts, its selection is gone and the cleanup
\* of the computer-turn effect clears the 1500 ms timer.  The 500 ms timer set inside
\* handleComputerMove has no cleanup.
HandleNewGame ==
  /\ gameState.gameStatus # "null"
  /\ SetGameState(NullState, moveTimer)
  /\ selectedTile' = NoTile
  /\ last' = Op("resetGame", PassId, "left", gameState)
  /\ UNCHANGED <<difficulty, localSettings, multiplayer, checkTimer>>

ResetNext ==
  \/ Next
  \/ HandleNewGame

ResetSpec == Init /\ [][ResetNext]_vars

\* ---------------------------------------------------------------- the settings page
\* the player-count buttons
UpdatePlayerCount ==
  /\ \E count \in PlayerCounts :
       localSettings' = updateLocalSetting(localSettings, "playerCount", count)
  /\ UNCHANGED <<gameState, difficulty, selectedTile, moveTimer, checkTimer, last, multiplayer>>

\* the computer-players switch
ToggleComputerPlayers ==
  /\ localSettings' = updateLocalSetting(localSettings, "hasComputerPlayers",
                                         ~localSettings.hasComputerPlayers)
  /\ UNCHANGED <<gameState, difficulty, selectedTile, moveTimer, checkTimer, last, multiplayer>>

\* the computer-count buttons, rendered for 1..playerCount-1 while computers are enabled
UpdateComputerCount ==
  /\ localSettings.hasComputerPlayers
  /\ \E count \in 1..(localSettings.playerCount - 1) :
       localSettings' = updateLocalSetting(localSettings, "computerCount", count)
  /\ UNCHANGED <<gameState, difficulty, selectedTile, moveTimer, checkTimer, last, multiplayer>>

\* handleStartGame of an authenticated user: startNewGame(localSettings)
SettingsStartGame ==
  /\ \E seed \in Seeds :
       SetGameState(startNewGameWith(localSettings, seed), moveTimer)
  /\ last' = Op("startNewGame", PassId, "left", gameState)
  /\ UNCHANGED <<difficulty, localSettings, multiplayer, selectedTile, checkTimer>>

SettingsNext ==
  \/ UpdatePlayerCount
  \/ ToggleComputerPlayers
  \/ UpdateComputerCount
  \/ SettingsStartGame

SettingsSpec == Init /\ [][SettingsNext]_vars

\* ---------------------------------------------------------------- rule functions on any input
\* Math.random can produce any permutation, so a deal can put any tiles in any
\* order into the hands.  RulesSpec applies the rule functions to such inputs.

\* the shapes of a deal: <<players, tiles per hand>>
HandShapes == {<<2, h>> : h \in 1..RulesHand} \cup {<<3, h>> : h \in 1..(RulesHand - 1)}

\* the hands of the given shapes, any distinct tiles in any order
AnyHands(shapes) ==
  LET most == IF RulesHand < 3 THEN 2 * RulesHand ELSE 3 * (RulesHand - 1)
  IN  {[i \in 1..c[2][1] |-> [k \in 1..c[2][2] |-> OrderedTiles[c[1][(i - 1) * c[2][2] + k] + 1]]] :
         c \in {a \in [1..most -> AllTileIds] : \A x, y \in 1..most : a[x] = a[y] => x = y}
                  \X shapes}

\* a state as startNewRound builds it up to the choice of the starting player
DealtState(hands) ==
  [players |-> [i \in 1..Len(hands) |->
                  [id |-> i, hand |-> hands[i], score |-> 0, isComputer |-> (i # UserId)]],
   currentPlayerIndex |-> 0, board |-> <<>>, boneyard |-> <<>>,
   gameStatus |-> "playing", targetScore |-> TargetScore, round |-> 1, winner |-> 0]

AnyDeals(shapes) == {DealtState(hands) : hands \in AnyHands(shapes)}

\* every tile in both orientations, as tiles lie on a board
OrientedTiles ==
  {OrderedTiles[k] : k \in 1..TileCount} \cup {Flipped(OrderedTiles[k]) : k \in 1..TileCount}

\* the boards playTile can have built: chains of distinct tiles whose touching ends agree
AnyBoards ==
  UNION {{b \in [1..n -> OrientedTiles] :
            /\ \A x, y \in 1..n : b[x].id = b[y].id => x = y
            /\ \A x \in 1..(n - 1) : b[x].rightDots = b[x + 1].leftDots} : n \in 0..RulesBoard}

\* a position in play: the board, the player to move holding one tile that is not
\* on the board, the opponent holding the lowest other tile
AnyPositions ==
  {[DealtState(<<<<OrderedTiles[t + 1]>>,
                 <<OrderedTiles[Min({u \in AllTileIds :
                      u # t /\ \A x \in 1..Len(b) : b[x].id # u}) + 1]>>>>)
      EXCEPT !.board = b] :
     <<b, t>> \in {c \in AnyBoards \X AllTileIds : \A x \in 1..Len(c[1]) : c[1][x].id # c[2]}}

RulesInit ==
  /\ \/ gameState \in AnyDeals(HandShapes)
     \/ gameState \in AnyPositions
     \/ gameState = NullState
  /\ difficulty = "easy"
  /\ selectedTile = NoTile
  /\ localSettings = defaultSettings
  /\ moveTimer = <<>>
  /\ checkTimer = <<>>
  /\ last = [op |-> "init", case |-> "init", tileId |-> PassId, position |-> "left",
             pre |-> NullState, snap |-> NullState]
  /\ multiplayer = NoRoom

\* startNewRound: currentPlayerIndex: findStartingPlayer(updatedPlayers)
RulesStartRound ==
  /\ last.op = "init"
  /\ gameState.gameStatus = "playing"
  /\ gameState.board = <<>>
  /\ gameState' = [gameState EXCEPT !.currentPlayerIndex = findStartingPlayer(gameState.players)]
  /\ last' = [last EXCEPT !.op = "findStartingPlayer", !.case = "findStartingPlayer",
                          !.pre = gameState, !.snap = gameState]
  /\ UNCHANGED <<difficulty, localSettings, multiplayer, selectedTile, moveTimer, checkTimer>>

\* playTile(gameState, tileId, position) for the tile held and either end
RulesPlayTile ==
  /\ last.op = "init"
  /\ gameState.gameStatus = "playing"
  /\ \E position \in Positions :
       LET tileId == CurrentPlayer(gameState).hand[1].id
       IN  /\ gameState' = playTile(gameState, tileId, position)
           /\ last' = Op("makeMove", tileId, position, gameState)
  /\ UNCHANGED <<difficulty, localSettings, multiplayer, selectedTile, moveTimer, checkTimer>>

\* gameUtils.dealTiles(createDominoSet(), playerCount) at the size of the program
RulesDeal ==
  /\ last.op = "init"
  /\ gameState.gameStatus = "null"
  /\ \E playerCount \in PlayerCounts, seed \in Seeds :
       LET dealt == gameUtilsDealTiles(FullDominoSets[seed], playerCount, FullPerTwo, FullPerMany)
       IN  gameState' = [DealtState(dealt.hands) EXCEPT !.boneyard = dealt.boneyard]
  /\ last' = [last EXCEPT !.op = "dealTiles", !.case = "dealTiles"]
  /\ UNCHANGED <<difficulty, localSettings, multiplayer, selectedTile, moveTimer, checkTimer>>

\* the seeds given to shuffleArray: the digits of a room id, or none
ShuffleSeeds == {0, 42, 4711, Undefined}

\* the arrays given to shuffleArray: tiles in any order, repeats allowed, and the full sets
AnyArrays ==
  UNION {[1..n -> {OrderedTiles[k] : k \in 1..TileCount}] : n \in 0..ShuffleLen}
    \cup {FullDominoSets[seed] : seed \in Seeds}

\* shuffleArray(array, seed): the result is kept as the boneyard, last.pre holds the array
\* before the call, last.snap the caller's array after it, last.tileId the seed
RulesShuffle ==
  /\ last.op = "init"
  /\ gameState.gameStatus = "null"
  /\ \E array \in AnyArrays, seed \in ShuffleSeeds, random \in Seeds :
       LET call == shuffleArrayCall(array, seed, random)
       IN  /\ gameState' = [gameState EXCEPT !.boneyard = call.shuffled]
           /\ last' = [op |-> "shuffleArray", case |-> "shuffleArray", tileId |-> seed,
                       position |-> "left",
                       pre |-> [NullState EXCEPT !.boneyard = array],
                       snap |-> [NullState EXCEPT !.boneyard = call.array]]
  /\ UNCHANGED <<difficulty, localSettings, multiplayer, selectedTile, moveTimer, checkTimer>>

\* the seeds startMultiplayerGame takes from a room id: parseInt(digits) || Date.now()
RoomSeeds == ShuffleSeeds \ {0, Undefined}

\* a participant builds the deal of a room from the room's seed: the state is the deal,
\* last.tileId the seed
RulesMultiplayerDeal ==
  /\ last.op = "init"
  /\ gameState.gameStatus = "null"
  /\ \E count \in {2, 3}, seed \in RoomSeeds, random \in Seeds :
       /\ gameState' = multiplayerGameState(count, seed, random)
       /\ last' = [last EXCEPT !.op = "startMultiplayerGame", !.case = "startMultiplayerGame",
                               !.tileId = seed]
  /\ UNCHANGED <<difficulty, localSettings, multiplayer, selectedTile, moveTimer, checkTimer>>

RulesNext ==
  \/ RulesMultiplayerDeal
  \/ RulesStartRound
  \/ RulesPlayTile
  \/ RulesDeal
  \/ RulesShuffle

RulesSpec == RulesInit /\ [][RulesNext]_vars

\* ---------------------------------------------------------------- multiplayer rooms
\* The participants of a room of two, the host first; a participant's user id is its
\* number, as the ids of RoomPlayers are.
HostId == 1
Participants == {HostId, 2}

\* the GameContext module in use: src/src/contexts/GameContext.tsx, or the variant of it
\* kept in src/src/index.css (lines 196-776)
Providers == {"GameContext.tsx", "index.css"}

\* the room record: GameRoom.status, GameRoom.gameState (NullState while absent), and
\* the number parsed from GameRoom.id
WaitingRoom(seed) == [status |-> "waiting", gameState |-> NullState, seed |-> seed]

\* FirebaseMultiplayerService.updateRoomGameState(roomId, gameState), called by the
\* provider of index.css and not part of the service files: the spec's write of
\* the embedded GameState into the room record
updateRoomGameState(record, newGameState) == [record EXCEPT !.gameState = newGameState]

\* multiplayer: provider; store, the room record of the replicated store; and for each
\* participant: currentRoom (the service's copy of the record), seen (the service has the
\* store's latest value), page, isInitializing (GamePage), isMultiplayerGame and
\* gameState (GameContext), writing (the GameState of a pending updateRoomGameState,
\* NullState when none), random (Math.random's stream); built is the set of
\* participants that have constructed a GameState.
RoomInit ==
  /\ gameState = NullState
  /\ difficulty = "easy"
  /\ selectedTile = NoTile
  /\ localSettings = defaultSettings
  /\ moveTimer = <<>>
  /\ checkTimer = <<>>
  /\ last = [op |-> "init", case |-> "init", tileId |-> PassId, position |-> "left",
             pre |-> NullState, snap |-> NullState]
  /\ \E provider \in Providers, seed \in RoomSeeds, random \in [Participants -> Seeds] :
       multiplayer =
         [provider |-> provider,
          store |-> WaitingRoom(seed),
          currentRoom |-> [p \in Participants |-> WaitingRoom(seed)],
          seen |-> [p \in Participants |-> TRUE],
          page |-> [p \in Participants |-> "lobby"],
          isInitializing |-> [p \in Participants |-> TRUE],
          isMultiplayerGame |-> [p \in Participants |-> FALSE],
          gameState |-> [p \in Participants |-> NullState],
          writing |-> [p \in Participants |-> NullState],
          random |-> random,
          built |-> {}]

single == <<gameState, difficulty, selectedTile, moveTimer, checkTimer, last, localSettings>>

\* FirebaseMultiplayerService.startGame by the host: update(roomRef, {status: 'playing'})
RoomStartGame ==
  /\ multiplayer.page[HostId] = "lobby"
  /\ multiplayer.currentRoom[HostId].status = "waiting"
  /\ multiplayer.store.status = "waiting"
  /\ multiplayer' = [multiplayer EXCEPT !.store.status = "playing",
                                        !.seen = [p \in Participants |-> FALSE]]
  /\ UNCHANGED single

\* the provider's handleRoomUpdate (index.css only), listening once the participant's
\* startMultiplayerGame has set isMultiplayerGame and currentRoom
handleRoomUpdate(m, p, updatedRoom) ==
  IF m.provider = "index.css" /\ m.isMultiplayerGame[p] /\ updatedRoom.gameState # NullState
  THEN [m EXCEPT !.gameState[p] = updatedRoom.gameState]
  ELSE m

\* listenToRoomChanges, onValue at participant p: currentRoom = updatedRoom; 'game_started'
\* on waiting -> playing, on which MultiplayerPage navigates to /game; then 'room_updated'
RoomChanged(p) ==
  /\ ~multiplayer.seen[p]
  /\ LET updatedRoom == multiplayer.store
         previousRoom == multiplayer.currentRoom[p]
         started == previousRoom.status = "waiting" /\ updatedRoom.status = "playing"
         m1 == [multiplayer EXCEPT !.currentRoom[p] = updatedRoom,
                                   !.seen[p] = TRUE,
                                   !.page[p] = IF started THEN "game" ELSE @]
     IN  multiplayer' = handleRoomUpdate(m1, p, updatedRoom)
  /\ UNCHANGED single

\* startMultiplayerGame(room) at participant p
startMultiplayerGame(m, p, room) ==
  LET m1 == [m EXCEPT !.isMultiplayerGame[p] = TRUE]
      count == Cardinality(Participants)
  IN  IF m.provider = "GameContext.tsx"
      THEN [m1 EXCEPT !.gameState[p] = multiplayerGameState(count, Undefined, m.random[p]),
                      !.built = @ \cup {p}]
      ELSE IF room.gameState # NullState
      THEN [m1 EXCEPT !.gameState[p] = room.gameState]
      ELSE IF p # HostId
      THEN m1
      ELSE LET newGameState == multiplayerGameState(count, room.seed, m.random[p])
           IN  [m1 EXCEPT !.gameState[p] = newGameState,
                          !.built = @ \cup {p},
                          !.writing[p] = newGameState]

\* GamePage's initialization effect, initializeMultiplayerGame, at participant p
InitializeMultiplayerGame(p) ==
  /\ multiplayer.page[p] = "game"
  /\ multiplayer.isInitializing[p]
  /\ LET m1 == [multiplayer EXCEPT !.isInitializing[p] = FALSE]
         room == multiplayer.currentRoom[p]
     IN  multiplayer' =
           IF multiplayer.gameState[p] # NullState THEN m1
           ELSE IF room.status = "playing" THEN startMultiplayerGame(m1, p, room)
           ELSE [m1 EXCEPT !.page[p] = "lobby"]
  /\ UNCHANGED single

\* the provider's helper updateRoomGameState(room, gameState) completes: the state is
\* written into the room record and every subscriber is notified
RoomWriteGameState(p) ==
  /\ multiplayer.writing[p] # NullState
  /\ multiplayer' = [multiplayer EXCEPT
                       !.store = updateRoomGameState(@, multiplayer.writing[p]),
                       !.writing[p] = NullState,
                       !.seen = [q \in Participants |-> FALSE]]
  /\ UNCHANGED single

\* participant p, whose turn it is in its own GameState, selects a tile (handleTileClick)
\* and places it (handlePositionClick): makeMove on the local GameState
RoomMakeMove(p) ==
  /\ multiplayer.page[p] = "game"
  /\ LET g == multiplayer.gameState[p]
     IN  /\ g.gameStatus = "playing"
         /\ CurrentPlayer(g).id = p
         /\ \E i \in 1..Len(CurrentPlayer(g).hand), position \in Positions :
              LET tile == CurrentPlayer(g).hand[i]
              IN  /\ Len(g.board) = 0 \/ canPlayTile(tile, g.board)
                  /\ Len(g.board) = 0 => position = "left"
                  /\ \E seed \in SeedsFor(g, tile.id, position) :
                       multiplayer' = [multiplayer EXCEPT
                                         !.gameState[p] = makeMove(g, tile.id, position, seed)]
  /\ UNCHANGED single

\* participant p, whose turn it is in its own GameState, draws (handleDrawTile)
RoomDrawTile(p) ==
  /\ multiplayer.page[p] = "game"
  /\ LET g == multiplayer.gameState[p]
     IN  /\ g.gameStatus = "playing"
         /\ CurrentPlayer(g).id = p
         /\ Len(g.boneyard) > 0
         /\ multiplayer' = [multiplayer EXCEPT !.gameState[p] = drawFromBoneyard(g)]
  /\ UNCHANGED single

RoomNext ==
  \/ RoomStartGame
  \/ \E p \in Participants : RoomChanged(p)
  \/ \E p \in Participants : InitializeMultiplayerGame(p)
  \/ \E p \in Participants : RoomWriteGameState(p)
  \/ \E p \in Participants : RoomMakeMove(p)
  \/ \E p \in Participants : RoomDrawTile(p)

RoomSpec == RoomInit /\ [][RoomNext]_vars

\* ---------------------------------------------------------------- room services
\* The users of the lobby; a user's name is taken to be its id.
LobbyClients == {1, 2, 3}

\* gameSettings.playerCount of the rooms created
LobbySizes == {2, 3}

\* no record under rooms/{code}; also a service's currentRoom when it is null
AbsentRoom ==
  [hostId |-> 0, hostName |-> 0, players |-> <<>>, playerCount |-> 0, status |-> "absent"]

\* the record update() creates under a deleted key: only the written fields exist
\* (status "undefined", playerCount 0 and players << >> stand for missing fields)
PartialRoom == [AbsentRoom EXCEPT !.status = "undefined"]

\* createRoom: the room as the host builds it
NewRoom(host, playerCount) ==
  [hostId |-> host, hostName |-> host,
   players |-> <<[id |-> host, name |-> host, isHost |-> TRUE, isReady |-> TRUE]>>,
   playerCount |-> playerCount, status |-> "waiting"]

\* faulty variant: the roster's length is not looked at
JoinCheckAnySize(room, userId) ==
  IF room.status = "absent" THEN "notFound"
  ELSE IF room.status # "waiting" THEN "inProgress"
  ELSE IF \E k \in 1..Len(room.players) : room.players[k].id = userId THEN "already"
  ELSE "ok"

\* joinRoom's checks on the room it read, in the order of the code
JoinCheck(room, userId) ==
  IF room.status = "absent" THEN "notFound"
  ELSE IF room.status # "waiting" THEN "inProgress"
  ELSE IF Len(room.players) >= room.playerCount THEN "full"
  ELSE IF \E k \in 1..Len(room.players) : room.players[k].id = userId THEN "already"
  ELSE "ok"

\* faulty variant: the joining player is entered as ready
JoinedPlayersReady(room, userId) ==
  Append(room.players, [id |-> userId, name |-> userId, isHost |-> FALSE, isReady |-> TRUE])

\* joinRoom: updatedPlayers = [...room.players, newPlayer]
JoinedPlayers(room, userId) ==
  Append(room.players, [id |-> userId, name |-> userId, isHost |-> FALSE, isReady |-> FALSE])

\* players.filter(p => p.id !== userId)
Remaining(players, userId) ==
  LET Stays(p) == p.id # userId
  IN  SelectSeq(players, Stays)

\* faulty variant: the last remaining entry is made host
LeftPlayersLastHost(room, userId) ==
  LET updatedPlayers == Remaining(room.players, userId)
  IN  IF room.hostId = userId /\ Len(updatedPlayers) > 0
      THEN [updatedPlayers EXCEPT ![Len(updatedPlayers)].isHost = TRUE]
      ELSE updatedPlayers

\* leaveRoom: the roster written, the first remaining entry made host when the host leaves
LeftPlayers(room, userId) ==
  LET updatedPlayers == Remaining(room.players, userId)
  IN  IF room.hostId = userId /\ Len(updatedPlayers) > 0
      THEN [updatedPlayers EXCEPT ![1].isHost = TRUE]
      ELSE updatedPlayers

\* leaveRoom's write: remove(roomRef), or update(roomRef, {players[, hostId, hostName]})
LeaveWrite(room, userId) ==
  LET updatedPlayers == LeftPlayers(room, userId)
  IN  IF Len(updatedPlayers) = 0 THEN [kind |-> "remove", players |-> <<>>, hostId |-> 0, hostName |-> 0]
      ELSE IF room.hostId = userId
      THEN [kind |-> "host", players |-> updatedPlayers,
            hostId |-> updatedPlayers[1].id, hostName |-> updatedPlayers[1].name]
      ELSE [kind |-> "players", players |-> updatedPlayers, hostId |-> 0, hostName |-> 0]

\* leaveRoom in the Firebase service sets newHost.isHost = true on the object that the
\* service's currentRoom.players holds too, before the write: the current room after it
LeaveMutated(room, userId) ==
  LET Other(k) == room.players[k].id # userId
      others == {k \in 1..Len(room.players) : Other(k)}
  IN  IF room.hostId = userId /\ others # {}
      THEN [room EXCEPT !.players[Min(others)].isHost = TRUE]
      ELSE room

\* toggleReady: the room with the player's isReady flipped, or the room itself
Toggled(room, userId) ==
  LET Is(k) == room.players[k].id = userId
      playerIndex == FindIndex([k \in 1..Len(room.players) |-> Is(k)])
  IN  IF playerIndex = -1 \/ room.players[playerIndex + 1].isHost THEN room
      ELSE [room EXCEPT !.players[playerIndex + 1].isReady = ~@]

\* faulty variant: only the host's own entry is looked at
canStartGameHostOnly(room) ==
  /\ room.status # "absent"
  /\ \E k \in 1..Len(room.players) : room.players[k].isHost

\* canStartGame on the service's current room
canStartGame(room) ==
  /\ room.status # "absent"
  /\ \A k \in 1..Len(room.players) : room.players[k].isReady \/ room.players[k].isHost

\* a write to rooms/{code}: set, remove, or update of the named fields
NoWrite == [kind |-> "none", players |-> <<>>, hostId |-> 0, hostName |-> 0]

ApplyWrite(record, write) ==
  LET base == IF record.status = "absent" THEN PartialRoom ELSE record
  IN  CASE write.kind = "remove" -> AbsentRoom
        [] write.kind = "players" -> [base EXCEPT !.players = write.players]
        [] write.kind = "host" -> [base EXCEPT !.players = write.players,
                                               !.hostId = write.hostId,
                                               !.hostName = write.hostName]
        [] write.kind = "status" -> [base EXCEPT !.status = "playing"]
        [] OTHER -> record

\* the services of the clients and the store they share: multiplayer holds
\*   transport    which service the clients use ("firebase" or "local")
\*   store        the record under the room's code
\*   created      whether the code has been generated
\*   playerCount  the gameSettings.playerCount the room was created with
\*   currentRoom  each service's currentRoom (AbsentRoom for null)
\*   listening    whether the service's onValue listener is registered
\*   seen         whether the listener has been called with the store's present value
\*   pending      the write a service's call is awaiting, and whether the listener was
\*                called meanwhile
\*   ops          the number of service calls made
\*   done         the last step: its call, the store and the caller's room before the call
Transports == {"firebase", "local"}

LobbyOps == 4

NoPending ==
  [op |-> "none", write |-> NoWrite, read |-> AbsentRoom, local |-> AbsentRoom,
   heard |-> FALSE]

Done(op, client, outcome, reason, store, local, read, write) ==
  [op |-> op, client |-> client, outcome |-> outcome, reason |-> reason,
   store |-> store, local |-> local, read |-> read, write |-> write]

\* an event passed to emit(): its name and the player id it carries (0 for none)
Event(name, id) == <<name, id>>

\* players.some(pp => pp.id === id)
HasRosterId(players, id) == \E k \in 1..Len(players) : players[k].id = id

\* the events the onValue callback of listenToRoomChanges emits for a snapshot, given
\* the room the service held before it.  A record that a late update() re-created has
\* no players field unless that update wrote one; players.filter / players.some on it
\* throws before anything is emitted.
RoomEvents(previousRoom, updatedRoom) ==
  IF updatedRoom.status = "absent" THEN {Event("room_deleted", 0)}
  ELSE IF previousRoom.status = "absent" THEN {Event("room_updated", 0)}
  ELSE IF updatedRoom.players = <<>> \/ previousRoom.players = <<>> THEN {}
  ELSE LET newPlayers == {k \in 1..Len(updatedRoom.players) :
                            ~HasRosterId(previousRoom.players, updatedRoom.players[k].id)}
           removedPlayers == {k \in 1..Len(previousRoom.players) :
                                ~HasRosterId(updatedRoom.players, previousRoom.players[k].id)}
       IN  {Event("player_joined", updatedRoom.players[k].id) : k \in newPlayers}
           \cup {Event("player_left", previousRoom.players[k].id) : k \in removedPlayers}
           \cup (IF previousRoom.status = "waiting" /\ updatedRoom.status = "playing"
                 THEN {Event("game_started", 0)} ELSE {})
           \cup {Event("room_updated", 0)}

\* the count of game_started events a client's service has emitted, kept up to two
Counted(started, c, emitted) ==
  IF Event("game_started", 0) \in emitted
  THEN [started EXCEPT ![c] = IF @ < 2 THEN @ + 1 ELSE @]
  ELSE started

LobbyInit ==
  /\ gameState = NullState
  /\ difficulty = "easy"
  /\ selectedTile = NoTile
  /\ localSettings = defaultSettings
  /\ moveTimer = <<>>
  /\ checkTimer = <<>>
  /\ last = [op |-> "init", case |-> "init", tileId |-> PassId, position |-> "left",
             pre |-> NullState, snap |-> NullState]
  /\ \E transport \in Transports :
       multiplayer =
         [provider |-> "lobby",
          transport |-> transport,
          store |-> AbsentRoom,
          created |-> FALSE,
          playerCount |-> 0,
          currentRoom |-> [c \in LobbyClients |-> AbsentRoom],
          listening |-> [c \in LobbyClients |-> FALSE],
          seen |-> [c \in LobbyClients |-> TRUE],
          pending |-> [c \in LobbyClients |-> NoPending],
          ops |-> 0,
          budget |-> LobbyOps,
          emitted |-> {},
          started |-> [c \in LobbyClients |-> 0],
          done |-> Done("init", 0, "none", "none", AbsentRoom, AbsentRoom, AbsentRoom, NoWrite)]

\* a service call can be made: the budget allows it and the caller awaits nothing
Idle(c) ==
  /\ multiplayer.provider = "lobby"
  /\ multiplayer.ops < multiplayer.budget
  /\ multiplayer.pending[c].op = "none"

\* whether the caller's listener was called while the call awaited its write
Heard(call) == IF call.heard THEN "heard" ELSE "ok"

\* every registered listener is due a call with the new value
Notified(listening) == [c \in LobbyClients |-> ~listening[c]]

\* createRoom(host, gameSettings) under a code not generated before: set(roomRef, room)
\* in the Firebase service, saveRoomToStorage(room) in the local one
CreateRoom(c) ==
  /\ Idle(c)
  /\ ~multiplayer.created
  /\ \E playerCount \in LobbySizes :
       LET m == multiplayer
           room == NewRoom(c, playerCount)
           listening == [m.listening EXCEPT ![c] = (m.transport = "firebase")]
       IN  multiplayer' =
             [m EXCEPT !.store = room,
                       !.created = TRUE,
                       !.playerCount = playerCount,
                       !.currentRoom[c] = room,
                       !.listening = listening,
                       !.seen = Notified(listening),
                       !.ops = @ + 1,
                       !.emitted = {},
                       !.done = Done("createRoom", c, "applied", "ok", m.store,
                                     m.currentRoom[c], AbsentRoom, NoWrite)]
  /\ UNCHANGED single

\* joinRoom in the Firebase service up to its write: get(roomRef) and the checks
JoinRoomRead(c) ==
  /\ Idle(c)
  /\ multiplayer.transport = "firebase"
  /\ LET m == multiplayer
         room == m.store
         reason == JoinCheck(room, c)
         write == [NoWrite EXCEPT !.kind = "players", !.players = JoinedPlayers(room, c)]
     IN  multiplayer' =
           IF reason # "ok"
           THEN [m EXCEPT !.ops = @ + 1,
                          !.emitted = {},
                          !.done = Done("joinRoom", c, "rejected", reason, m.store,
                                        m.currentRoom[c], room, NoWrite)]
           ELSE [m EXCEPT !.ops = @ + 1,
                          !.pending[c] = [op |-> "joinRoom", write |-> write, read |-> room,
                                          local |-> m.currentRoom[c], heard |-> FALSE],
                          !.emitted = {},
                          !.done = Done("joinRoom", c, "pending", reason, m.store,
                                        m.currentRoom[c], room, write)]
  /\ UNCHANGED single

\* joinRoom after await update(roomRef, {players}): the room it read with the new roster
\* becomes the current room and the listener is registered; a rejected write is logged
JoinRoomWrite(c) ==
  /\ multiplayer.provider = "lobby"
  /\ multiplayer.pending[c].op = "joinRoom"
  /\ \E fails \in BOOLEAN :
       LET m == multiplayer
           call == m.pending[c]
           listening == [m.listening EXCEPT ![c] = TRUE]
       IN  multiplayer' =
             IF fails
             THEN [m EXCEPT !.pending[c] = NoPending,
                            !.emitted = {},
                            !.done = Done("joinRoom", c, "failed", Heard(call), m.store, call.local,
                                          call.read, call.write)]
             ELSE [m EXCEPT !.store = ApplyWrite(m.store, call.write),
                            !.currentRoom[c] = [call.read EXCEPT !.players = call.write.players],
                            !.listening = listening,
                            !.seen = Notified(listening),
                            !.pending[c] = NoPending,
                            !.emitted = {Event("player_joined", c)},
                            !.done = Done("joinRoom", c, "applied", "ok", m.store, call.local,
                                          call.read, call.write)]
  /\ UNCHANGED single

\* leaveRoom in the Firebase service up to its write: the roster is filtered and the
\* new host's flag is set on the object the current room holds
LeaveRoomCall(c) ==
  /\ Idle(c)
  /\ multiplayer.transport = "firebase"
  /\ multiplayer.currentRoom[c].status # "absent"
  /\ LET m == multiplayer
         room == m.currentRoom[c]
         write == LeaveWrite(room, c)
     IN  multiplayer' =
           IF room.players = <<>>
           THEN [m EXCEPT !.ops = @ + 1,
                          !.emitted = {},
                          !.done = Done("leaveRoom", c, "failed", "noRoster", m.store, room,
                                        AbsentRoom, NoWrite)]
           ELSE [m EXCEPT !.ops = @ + 1,
                          !.currentRoom[c] = LeaveMutated(room, c),
                          !.pending[c] = [op |-> "leaveRoom", write |-> write,
                                          read |-> AbsentRoom, local |-> room,
                                          heard |-> FALSE],
                          !.emitted = {},
                          !.done = Done("leaveRoom", c, "pending", "ok", m.store, room,
                                        AbsentRoom, write)]
  /\ UNCHANGED single

\* leaveRoom after its await: stopListeningToRoom, emit player_left, currentRoom = null;
\* a rejected write, or a current room set to null meanwhile, ends in the catch.  The
\* caller's own listener may be called with the written value before the continuation
\* runs (heardFirst): it replaces currentRoom and emits its events first.
LeaveRoomWrite(c) ==
  /\ multiplayer.provider = "lobby"
  /\ multiplayer.pending[c].op = "leaveRoom"
  /\ \E fails \in BOOLEAN, heardFirst \in {FALSE, multiplayer.listening[c]} :
       LET m == multiplayer
           call == m.pending[c]
           stored == ApplyWrite(m.store, call.write)
           heldRoom == IF heardFirst THEN stored ELSE m.currentRoom[c]
           heardEvents == IF heardFirst THEN RoomEvents(m.currentRoom[c], stored) ELSE {}
           listening == IF heldRoom.status = "absent" THEN m.listening
                        ELSE [m.listening EXCEPT ![c] = FALSE]
           notified == Notified(listening)
       IN  multiplayer' =
             IF fails
             THEN [m EXCEPT !.pending[c] = NoPending,
                            !.emitted = {},
                            !.done = Done("leaveRoom", c, "failed", Heard(call), m.store, call.local,
                                          AbsentRoom, call.write)]
             ELSE [m EXCEPT !.store = stored,
                            !.currentRoom[c] = AbsentRoom,
                            !.listening = listening,
                            !.seen = [notified EXCEPT ![c] = @ \/ heardFirst],
                            !.pending[c] = NoPending,
                            !.emitted = heardEvents \cup
                                        (IF heldRoom.status = "absent" THEN {}
                                         ELSE {Event("player_left", c)}),
                            !.started = Counted(m.started, c, heardEvents),
                            !.done = Done("leaveRoom", c, "applied",
                                          IF heardFirst THEN "heardFirst" ELSE "ok",
                                          m.store, call.local, AbsentRoom, call.write)]
  /\ UNCHANGED single

\* toggleReady in the Firebase service up to its write: the flag is flipped on the
\* object the current room holds (updatedPlayers is a shallow copy)
ToggleReadyCall(c) ==
  /\ Idle(c)
  /\ multiplayer.transport = "firebase"
  /\ multiplayer.currentRoom[c].status # "absent"
  /\ LET m == multiplayer
         room == m.currentRoom[c]
         toggled == Toggled(room, c)
         write == [NoWrite EXCEPT !.kind = "players", !.players = toggled.players]
     IN  multiplayer' =
           IF toggled = room
           THEN [m EXCEPT !.ops = @ + 1,
                          !.emitted = {},
                          !.done = Done("toggleReady", c, "rejected", "hostOrAbsent", m.store,
                                        room, AbsentRoom, NoWrite)]
           ELSE [m EXCEPT !.ops = @ + 1,
                          !.currentRoom[c] = toggled,
                          !.pending[c] = [op |-> "toggleReady", write |-> write,
                                          read |-> AbsentRoom, local |-> room,
                                          heard |-> FALSE],
                          !.emitted = {},
                          !.done = Done("toggleReady", c, "pending", "ok", m.store, room,
                                        AbsentRoom, write)]
  /\ UNCHANGED single

\* toggleReady after await update(roomRef, {players}); a rejected write is logged
ToggleReadyWrite(c) ==
  /\ multiplayer.provider = "lobby"
  /\ multiplayer.pending[c].op = "toggleReady"
  /\ \E fails \in BOOLEAN :
       LET m == multiplayer
           call == m.pending[c]
       IN  multiplayer' =
             IF fails
             THEN [m EXCEPT !.pending[c] = NoPending,
                            !.emitted = {},
                            !.done = Done("toggleReady", c, "failed", Heard(call), m.store,
                                          call.local, AbsentRoom, call.write)]
             ELSE [m EXCEPT !.store = ApplyWrite(m.store, call.write),
                            !.seen = Notified(m.listening),
                            !.pending[c] = NoPending,
                            !.emitted = {},
                            !.done = Done("toggleReady", c, "applied", "ok", m.store,
                                          call.local, AbsentRoom, call.write)]
  /\ UNCHANGED single

\* startGame in the Firebase service up to its write: no current room, or canStartGame
\* false (or throwing on a record without a roster), returns
StartGameCall(c) ==
  /\ Idle(c)
  /\ multiplayer.transport = "firebase"
  /\ LET m == multiplayer
         room == m.currentRoom[c]
         write == [NoWrite EXCEPT !.kind = "status"]
     IN  multiplayer' =
           IF room.players = <<>> \/ ~canStartGame(room)
           THEN [m EXCEPT !.ops = @ + 1,
                          !.emitted = {},
                          !.done = Done("startGame", c, "rejected", "cannotStart", m.store,
                                        room, AbsentRoom, NoWrite)]
           ELSE [m EXCEPT !.ops = @ + 1,
                          !.pending[c] = [op |-> "startGame", write |-> write,
                                          read |-> AbsentRoom, local |-> room,
                                          heard |-> FALSE],
                          !.emitted = {},
                          !.done = Done("startGame", c, "pending", "ok", m.store, room,
                                        AbsentRoom, write)]
  /\ UNCHANGED single

\* startGame after await update(roomRef, {status: 'playing'}); a rejected write is logged
StartGameWrite(c) ==
  /\ multiplayer.provider = "lobby"
  /\ multiplayer.pending[c].op = "startGame"
  /\ \E fails \in BOOLEAN :
       LET m == multiplayer
           call == m.pending[c]
       IN  multiplayer' =
             IF fails
             THEN [m EXCEPT !.pending[c] = NoPending,
                            !.emitted = {},
                            !.done = Done("startGame", c, "failed", Heard(call), m.store,
                                          call.local, AbsentRoom, call.write)]
             ELSE [m EXCEPT !.store = ApplyWrite(m.store, call.write),
                            !.seen = Notified(m.listening),
                            !.pending[c] = NoPending,
                            !.emitted = {},
                            !.done = Done("startGame", c, "applied", "ok", m.store,
                                          call.local, AbsentRoom, call.write)]
  /\ UNCHANGED single

\* the onValue callback: currentRoom becomes the stored record, or null when it is gone
OnValue(c) ==
  /\ multiplayer.provider = "lobby"
  /\ multiplayer.listening[c]
  /\ ~multiplayer.seen[c]
  /\ LET m == multiplayer
     IN  multiplayer' =
           [m EXCEPT !.currentRoom[c] = m.store,
                     !.seen[c] = TRUE,
                     !.pending[c].heard = (m.pending[c].op # "none"),
                     !.emitted = RoomEvents(m.currentRoom[c], m.store),
                     !.started = Counted(m.started, c, RoomEvents(m.currentRoom[c], m.store)),
                     !.done = Done("onValue", c, "applied", "ok", m.store, m.currentRoom[c],
                                   m.store, NoWrite)]
  /\ UNCHANGED single

\* saveRoomToStorage / deleteRoom: the whole record is written, and an exception of
\* localStorage is swallowed
Saved(m, room, fails) == IF fails THEN m.store ELSE room

\* joinRoom of the local service
LocalJoinRoom(c) ==
  /\ Idle(c)
  /\ multiplayer.transport = "local"
  /\ \E fails \in BOOLEAN :
       LET m == multiplayer
           targetRoom == m.store
           reason == JoinCheck(targetRoom, c)
           joined == [targetRoom EXCEPT !.players = JoinedPlayers(targetRoom, c)]
           write == [NoWrite EXCEPT !.kind = "players", !.players = joined.players]
       IN  multiplayer' =
             IF reason # "ok"
             THEN [m EXCEPT !.ops = @ + 1,
                            !.emitted = {},
                            !.done = Done("joinRoom", c, "rejected", reason, m.store,
                                          m.currentRoom[c], targetRoom, NoWrite)]
             ELSE [m EXCEPT !.ops = @ + 1,
                            !.currentRoom[c] = joined,
                            !.store = Saved(m, joined, fails),
                            !.emitted = {Event("player_joined", c)},
                            !.done = Done("joinRoom", c, IF fails THEN "failed" ELSE "applied",
                                          reason, m.store, m.currentRoom[c], targetRoom, write)]
  /\ UNCHANGED single

\* leaveRoom of the local service: the current room is changed in place, saved or
\* deleted, and given up
LocalLeaveRoom(c) ==
  /\ Idle(c)
  /\ multiplayer.transport = "local"
  /\ multiplayer.currentRoom[c].status # "absent"
  /\ \E fails \in BOOLEAN :
       LET m == multiplayer
           room == m.currentRoom[c]
           write == LeaveWrite(room, c)
           left == IF write.kind = "remove" THEN AbsentRoom
                   ELSE IF write.kind = "host"
                   THEN [room EXCEPT !.players = write.players, !.hostId = write.hostId,
                                     !.hostName = write.hostName]
                   ELSE [room EXCEPT !.players = write.players]
       IN  multiplayer' =
             [m EXCEPT !.ops = @ + 1,
                       !.currentRoom[c] = AbsentRoom,
                       !.store = Saved(m, left, fails),
                       !.emitted = {Event("player_left", c)},
                       !.done = Done("leaveRoom", c, IF fails THEN "failed" ELSE "applied",
                                     "ok", m.store, room, AbsentRoom, write)]
  /\ UNCHANGED single

\* toggleReady of the local service
LocalToggleReady(c) ==
  /\ Idle(c)
  /\ multiplayer.transport = "local"
  /\ multiplayer.currentRoom[c].status # "absent"
  /\ \E fails \in BOOLEAN :
       LET m == multiplayer
           room == m.currentRoom[c]
           toggled == Toggled(room, c)
           write == [NoWrite EXCEPT !.kind = "players", !.players = toggled.players]
       IN  multiplayer' =
             IF toggled = room
             THEN [m EXCEPT !.ops = @ + 1,
                            !.emitted = {},
                            !.done = Done("toggleReady", c, "rejected", "hostOrAbsent", m.store,
                                          room, AbsentRoom, NoWrite)]
             ELSE [m EXCEPT !.ops = @ + 1,
                            !.currentRoom[c] = toggled,
                            !.store = Saved(m, toggled, fails),
                            !.emitted = {Event("player_ready_changed", c)},
                            !.done = Done("toggleReady", c,
                                          IF fails THEN "failed" ELSE "applied",
                                          "ok", m.store, room, AbsentRoom, write)]
  /\ UNCHANGED single

\* startGame of the local service
LocalStartGame(c) ==
  /\ Idle(c)
  /\ multiplayer.transport = "local"
  /\ \E fails \in BOOLEAN :
       LET m == multiplayer
           room == m.currentRoom[c]
           started == [room EXCEPT !.status = "playing"]
           write == [NoWrite EXCEPT !.kind = "status"]
       IN  multiplayer' =
             IF ~canStartGame(room)
             THEN [m EXCEPT !.ops = @ + 1,
                            !.emitted = {},
                            !.done = Done("startGame", c, "rejected", "cannotStart", m.store,
                                          room, AbsentRoom, NoWrite)]
             ELSE [m EXCEPT !.ops = @ + 1,
                            !.currentRoom[c] = started,
                            !.store = Saved(m, started, fails),
                            !.emitted = {Event("game_started", 0)},
                            !.started = Counted(m.started, c, {Event("game_started", 0)}),
                            !.done = Done("startGame", c, IF fails THEN "failed" ELSE "applied",
                                          "ok", m.store, room, AbsentRoom, write)]
  /\ UNCHANGED single

LobbyNext ==
  \/ \E c \in LobbyClients : CreateRoom(c)
  \/ \E c \in LobbyClients : JoinRoomRead(c)
  \/ \E c \in LobbyClients : JoinRoomWrite(c)
  \/ \E c \in LobbyClients : LeaveRoomCall(c)
  \/ \E c \in LobbyClients : LeaveRoomWrite(c)
  \/ \E c \in LobbyClients : ToggleReadyCall(c)
  \/ \E c \in LobbyClients : ToggleReadyWrite(c)
  \/ \E c \in LobbyClients : StartGameCall(c)
  \/ \E c \in LobbyClients : StartGameWrite(c)
  \/ \E c \in LobbyClients : OnValue(c)
  \/ \E c \in LobbyClients : LocalJoinRoom(c)
  \/ \E c \in LobbyClients : LocalLeaveRoom(c)
  \/ \E c \in LobbyClients : LocalToggleReady(c)
  \/ \E c \in LobbyClients : LocalStartGame(c)

LobbySpec == LobbyInit /\ [][LobbyNext]_vars

\* ---------------------------------------------------------------- room listeners
\* The Firebase service followed one call further, from the room client 1 has created
\* for three players: the state createRoom leaves, with its listener due the first
\* snapshot.
ListenerOps == 5

ListenerInit ==
  /\ gameState = NullState
  /\ difficulty = "easy"
  /\ selectedTile = NoTile
  /\ localSettings = defaultSettings
  /\ moveTimer = <<>>
  /\ checkTimer = <<>>
  /\ last = [op |-> "init", case |-> "init", tileId |-> PassId, position |-> "left",
             pre |-> NullState, snap |-> NullState]
  /\ LET room == NewRoom(1, 3)
         listening == [c \in LobbyClients |-> c = 1]
     IN  multiplayer =
           [provider |-> "lobby",
            transport |-> "firebase",
            store |-> room,
            created |-> TRUE,
            playerCount |-> 3,
            currentRoom |-> [c \in LobbyClients |-> IF c = 1 THEN room ELSE AbsentRoom],
            listening |-> listening,
            seen |-> Notified(listening),
            pending |-> [c \in LobbyClients |-> NoPending],
            ops |-> 1,
            budget |-> ListenerOps,
            emitted |-> {},
            started |-> [c \in LobbyClients |-> 0],
            done |-> Done("createRoom", 1, "applied", "ok", AbsentRoom, AbsentRoom,
                          AbsentRoom, NoWrite)]

ListenerNext ==
  \/ \E c \in LobbyClients : JoinRoomRead(c)
  \/ \E c \in LobbyClients : JoinRoomWrite(c)
  \/ \E c \in LobbyClients : LeaveRoomCall(c)
  \/ \E c \in LobbyClients : LeaveRoomWrite(c)
  \/ \E c \in LobbyClients : ToggleReadyCall(c)
  \/ \E c \in LobbyClients : ToggleReadyWrite(c)
  \/ \E c \in LobbyClients : StartGameCall(c)
  \/ \E c \in LobbyClients : StartGameWrite(c)
  \/ \E c \in LobbyClients : OnValue(c)

ListenerSpec == ListenerInit /\ [][ListenerNext]_vars

\* ---------------------------------------------------------------- claims
\* Vocabulary of the properties, stated from the rules and not through the operators above.
Players(g) == 1..Len(g.players)

RECURSIVE PipSum(_)
PipSum(hand) ==
  IF Len(hand) = 0 THEN 0
  ELSE hand[Len(hand)].leftDots + hand[Len(hand)].rightDots + PipSum(SubSeq(hand, 1, Len(hand) - 1))

Connected(board) == \A i \in 1..(Len(board) - 1) : board[i].rightDots = board[i + 1].leftDots

OpenEnds(board) == {board[1].leftDots, board[Len(board)].rightDots}

Fits(tile, board) == board = <<>> \/ {tile.leftDots, tile.rightDots} \cap OpenEnds(board) # {}

SomeHandEmpty(g) == \E i \in Players(g) : Len(g.players[i].hand) = 0

Blocked(g) ==
  /\ Len(g.boneyard) = 0
  /\ \A i \in Players(g) : \A k \in 1..Len(g.players[i].hand) : ~Fits(g.players[i].hand[k], g.board)

\* the last operation was a call of makeMove that was a legal play of the state it read
AcceptedPlay == last.op = "makeMove" /\ last.case = "legal"

\* the state right after that play, before the round-end handling of makeMove
AfterPlay == playTile(last.snap, last.tileId, last.position)

RoundEnded == AcceptedPlay /\ (SomeHandEmpty(AfterPlay) \/ Blocked(AfterPlay))

\* the states on which the round-end functions are evaluated: the current one and
\* the one right after the last accepted play
Evaluated == (IF gameState.gameStatus = "null" THEN {} ELSE {gameState})
               \cup (IF AcceptedPlay THEN {AfterPlay} ELSE {})

\* C1: after any sequence of accepted placements from the empty board, every two
\* adjacent board tiles touch with equal pips: board[i].rightDots = board[i+1].leftDots.
C1_BoardConnected == Connected(gameState.board)

\* C1 witness: a board of at least three tiles whose last placed tile had to be flipped.
C1_Witness ==
  /\ AcceptedPlay
  /\ Len(gameState.board) >= 3
  /\ \E i \in 1..Len(gameState.board) :
       /\ gameState.board[i].id = last.tileId
       /\ gameState.board[i].leftDots > gameState.board[i].rightDots

\* C2: an illegal move (tile not in the current player's hand, tile matching neither
\* open end, position outside the tile's playable positions, 'right' on an empty
\* board) is rejected with the whole GameState unchanged, by makeMove and by playTile.
C2_IllegalMoveRejected ==
  /\ (last.op = "makeMove" /\ last.case \in IllegalCases) => gameState = last.pre
  /\ \A tileId \in AllTileIds, position \in Positions :
       MoveCase(gameState, tileId, position) \in IllegalCases
         => /\ \A seed \in SeedsFor(gameState, tileId, position) :
                 makeMove(gameState, tileId, position, seed) = gameState
            /\ playTile(gameState, tileId, position) = gameState

\* C2 witness: the user clicked the end their selected tile does not match.
C2_Witness == last.op = "makeMove" /\ last.case = "wrongEnd" /\ Len(gameState.board) > 0

\* C3: an accepted play that does not end the round removes exactly the played tile
\* from the current player's hand, puts one tile with that id at the chosen end of the
\* board, advances currentPlayerIndex to (idx+1) mod playerCount, and leaves boneyard,
\* other hands, the tiles already on the board, scores and round unchanged
\* (relative to the GameState the call of makeMove read).
C3_AcceptedPlayFrame ==
  (AcceptedPlay /\ ~RoundEnded) =>
    LET g == last.snap
        n == Len(g.players)
        me == g.currentPlayerIndex + 1
        oldHand == g.players[me].hand
        newHand == gameState.players[me].hand
        placed == IF last.position = "left" THEN gameState.board[1]
                  ELSE gameState.board[Len(gameState.board)]
        rest == IF last.position = "left" THEN Tail(gameState.board)
                ELSE SubSeq(gameState.board, 1, Len(gameState.board) - 1)
    IN  /\ Len(newHand) = Len(oldHand) - 1
        /\ \A k \in 1..Len(newHand) : newHand[k].id # last.tileId
        /\ \E k \in 1..Len(oldHand) :
             /\ oldHand[k].id = last.tileId
             /\ newHand = SubSeq(oldHand, 1, k - 1) \o SubSeq(oldHand, k + 1, Len(oldHand))
        /\ Len(gameState.board) = Len(g.board) + 1
        /\ placed.id = last.tileId
        /\ rest = g.board
        /\ gameState.currentPlayerIndex = (g.currentPlayerIndex + 1) % n
        /\ gameState.currentPlayerIndex \in 0..(n - 1)
        /\ gameState.boneyard = g.boneyard
        /\ Len(gameState.players) = n
        /\ \A i \in 1..n : i # me => gameState.players[i] = g.players[i]
        /\ \A i \in 1..n : gameState.players[i].score = g.players[i].score
        /\ gameState.round = g.round
        /\ gameState.gameStatus = "playing"

\* C3 witness: an accepted play at the right end of a non-empty board, round not over.
C3_Witness ==
  /\ AcceptedPlay
  /\ ~RoundEnded
  /\ last.position = "right"
  /\ Len(gameState.board) >= 2

\* the last operation was a draw that took a tile
DrawTaken == last.op = "draw" /\ last.snap.gameStatus = "playing" /\ Len(last.snap.boneyard) > 0

\* C4: a successful draw moves one tile from the boneyard to the current player's
\* hand and does not advance the turn: currentPlayerIndex is the same after the draw.
C4_DrawKeepsTurn ==
  DrawTaken =>
    /\ Len(gameState.boneyard) = Len(last.snap.boneyard) - 1
    /\ gameState.currentPlayerIndex = last.snap.currentPlayerIndex

\* the passing player's view in state g: boneyard empty and no tile of the hand fits
MustPass(g, playerId) ==
  /\ Len(g.boneyard) = 0
  /\ \A i \in Players(g) : g.players[i].id = playerId =>
       \A k \in 1..Len(g.players[i].hand) : ~Fits(g.players[i].hand[k], g.board)

\* C5: draw-before-pass: every pass happens only in a state where the boneyard is
\* empty and the passing player holds no playable tile (here: in the state the pass
\* was computed from, or else in the state current when the pass was applied).
C5_PassOnlyWhenBlocked ==
  last.op = "pass" =>
    \/ MustPass(last.snap, CurrentPlayer(last.snap).id)
    \/ MustPass(last.pre, CurrentPlayer(last.snap).id)

\* C6: isRoundOver(state) is true iff some hand is empty, or no player holds a
\* playable tile and the boneyard is empty.
C6_RoundOverIff ==
  \A g \in Evaluated : isRoundOver(g) <=> (SomeHandEmpty(g) \/ Blocked(g))

\* C6 witness: a play after which no hand is empty and the game is blocked.
C6_Witness == AcceptedPlay /\ ~SomeHandEmpty(AfterPlay) /\ Blocked(AfterPlay)

\* C7: getRoundWinner returns the player whose hand is empty when there is one,
\* and otherwise the first player in player order with the minimum hand pip sum.
C7_RoundWinner ==
  \A g \in Evaluated :
    LET w == getRoundWinner(g)
    IN  /\ w \in Players(g)
        /\ IF SomeHandEmpty(g)
           THEN Len(g.players[w].hand) = 0
           ELSE /\ \A j \in Players(g) : PipSum(g.players[w].hand) <= PipSum(g.players[j].hand)
                /\ \A j \in 1..(w - 1) : PipSum(g.players[j].hand) > PipSum(g.players[w].hand)

\* C7 witness: a blocked round end, no hand empty, won on pip count by a player
\* other than the first in player order.
C7_Witness ==
  /\ RoundEnded
  /\ ~SomeHandEmpty(AfterPlay)
  /\ getRoundWinner(AfterPlay) > 1

\* the scores the rules give after a round of state g won by player w
Scored(g, w) == [i \in Players(g) |->
                   IF i = w THEN g.players[i].score
                   ELSE g.players[i].score + PipSum(g.players[i].hand)]

\* C8: calculateRoundScoring leaves the winner's cumulative score unchanged, adds to
\* every other player's score the pip sum of that player's hand, and changes neither
\* hands nor player order; a game finished by a play shows exactly these scores.
C8_RoundScoring ==
  /\ \A g \in Evaluated : \A w \in Players(g) :
       LET r == calculateRoundScoring(g, g.players[w])
       IN  /\ Len(r) = Len(g.players)
           /\ \A i \in Players(g) :
                /\ r[i].score = Scored(g, w)[i]
                /\ r[i].hand = g.players[i].hand
                /\ r[i].id = g.players[i].id
  /\ (RoundEnded /\ gameState.gameStatus = "finished") =>
       \A i \in Players(gameState) :
         /\ gameState.players[i].score = Scored(AfterPlay, getRoundWinner(AfterPlay))[i]
         /\ gameState.players[i].hand = AfterPlay.players[i].hand

\* C8 witness: a game finished by a play, a loser's score having grown.
C8_Witness ==
  /\ RoundEnded
  /\ gameState.gameStatus = "finished"
  /\ \E i \in Players(gameState) : gameState.players[i].score > last.snap.players[i].score

\* the scores before and after the round end of the last play
ScoreBefore(i) == last.snap.players[i].score
ScoreAfter(i) == gameState.players[i].score

\* C9 as stated: at every reachable round end each non-winner's score strictly increases.
C9_StrictIncrease ==
  RoundEnded =>
    \A i \in Players(AfterPlay) : i # getRoundWinner(AfterPlay) => ScoreAfter(i) > ScoreBefore(i)

\* C9 amended: at every reachable round end the winner's score is unchanged and each
\* non-winner's score grows by exactly the pip sum of its hand; a non-winner's hand is
\* never empty, and its score stays the same iff its hand holds only the 0-0 tile.
C9_IncreaseByPipSum ==
  RoundEnded =>
    LET w == getRoundWinner(AfterPlay)
    IN  \A i \in Players(AfterPlay) :
          LET hand == AfterPlay.players[i].hand
          IN  IF i = w THEN ScoreAfter(i) = ScoreBefore(i)
              ELSE /\ ScoreAfter(i) = ScoreBefore(i) + PipSum(hand)
                   /\ Len(hand) > 0
                   /\ (ScoreAfter(i) = ScoreBefore(i)) <=>
                        (\A k \in 1..Len(hand) : hand[k].leftDots = 0 /\ hand[k].rightDots = 0)

\* C9 witness: a round end at which a loser holds a single tile and keeps its score.
C9_Witness ==
  /\ RoundEnded
  /\ \E i \in Players(AfterPlay) :
       /\ i # getRoundWinner(AfterPlay)
       /\ Len(AfterPlay.players[i].hand) = 1
       /\ ScoreAfter(i) = ScoreBefore(i)

\* C10: across plays, draws, passes and round transitions of one game no player's
\* cumulative score ever decreases.
C10_ScoresNeverDecrease ==
  (gameState.gameStatus # "null" /\ last.pre.gameStatus # "null") =>
    \A i \in Players(gameState) : gameState.players[i].score >= last.pre.players[i].score

\* some cumulative score has reached the target
TargetReached(g) == \E i \in Players(g) : g.players[i].score >= g.targetScore

Holders(g, id) ==
  {<<i, k>> \in Players(g) \X (1..TileCount) :
      k <= Len(g.players[i].hand) /\ g.players[i].hand[k].id = id}
    \cup {<<0, k>> : k \in {n \in 1..Len(g.boneyard) : g.boneyard[n].id = id}}

\* g is a fresh deal: empty board, every tile of the set in exactly one place,
\* full hands for the number of players
FreshDeal(g) ==
  /\ g.board = <<>>
  /\ \A id \in AllTileIds : Cardinality(Holders(g, id)) = 1
  /\ \A i \in Players(g) :
       Len(g.players[i].hand) =
         IF Len(g.players) <= 2 THEN TilesPerPlayerTwo ELSE TilesPerPlayerMany
  /\ Len(g.boneyard) + SeqSum([i \in Players(g) |-> Len(g.players[i].hand)]) = TileCount

\* the tiles held, as <<player, place in hand>>, in the order players and hands are walked
HeldCells(players) ==
  {c \in (1..Len(players)) \X (1..TileCount) : c[2] <= Len(players[c[1]].hand)}

CellBefore(c, d) == c[1] < d[1] \/ (c[1] = d[1] /\ c[2] < d[2])

\* the 0-based index of the player who starts by the rule: the holder of the highest
\* double, else of the tile with the highest pip sum, the first met on ties, 0 with no tiles
StartingIndex(players) ==
  LET T(c) == players[c[1]].hand[c[2]]
      Rank(c) == IF T(c).leftDots = T(c).rightDots THEN 100 + T(c).leftDots
                 ELSE T(c).leftDots + T(c).rightDots
      Eligible == IF \E c \in HeldCells(players) : T(c).leftDots = T(c).rightDots
                  THEN {c \in HeldCells(players) : T(c).leftDots = T(c).rightDots}
                  ELSE HeldCells(players)
      Best == {c \in Eligible : \A d \in Eligible : Rank(d) <= Rank(c)}
  IN  IF Best = {} THEN 0
      ELSE (CHOOSE c \in Best : \A d \in Best : d = c \/ CellBefore(c, d))[1] - 1

\* C12: when a play ends the round and no score has reached the target, the next
\* state has an empty board, a freshly dealt full set (full hands, the rest as
\* boneyard), round + 1, gameStatus playing, the scored cumulative scores and
\* currentPlayerIndex = the starting player of the new hands; when a score has
\* reached the target the state is finished with a winner and nothing is dealt.
C12_RoundTransition ==
  RoundEnded =>
    LET w == getRoundWinner(AfterPlay)
        scores == Scored(AfterPlay, w)
        over == \E i \in Players(AfterPlay) : scores[i] >= AfterPlay.targetScore
    IN  /\ Len(gameState.players) = Len(AfterPlay.players)
        /\ \A i \in Players(gameState) :
             /\ gameState.players[i].score = scores[i]
             /\ gameState.players[i].id = AfterPlay.players[i].id
        /\ gameState.targetScore = AfterPlay.targetScore
        /\ IF over
           THEN /\ gameState.gameStatus = "finished"
                /\ \E i \in Players(gameState) : gameState.players[i].id = gameState.winner
                /\ gameState.board = AfterPlay.board
                /\ gameState.boneyard = AfterPlay.boneyard
                /\ \A i \in Players(gameState) : gameState.players[i].hand = AfterPlay.players[i].hand
                /\ gameState.round = AfterPlay.round
           ELSE /\ gameState.gameStatus = "playing"
                /\ FreshDeal(gameState)
                /\ gameState.round = AfterPlay.round + 1
                /\ gameState.currentPlayerIndex = StartingIndex(gameState.players)
                /\ gameState.winner = 0

\* C12 witness: a new round dealt with a positive score carried over and a
\* starting player other than the first.
C12_Witness ==
  /\ RoundEnded
  /\ gameState.gameStatus = "playing"
  /\ gameState.round = last.snap.round + 1
  /\ gameState.currentPlayerIndex > 0
  /\ \E i \in Players(gameState) : gameState.players[i].score > 0

\* the tiles held in g that are doubles
HeldDoubles(players) ==
  {c \in HeldCells(players) :
     players[c[1]].hand[c[2]].leftDots = players[c[1]].hand[c[2]].rightDots}

CellPips(players, c) == players[c[1]].hand[c[2]].leftDots + players[c[1]].hand[c[2]].rightDots

\* C13: findStartingPlayer returns the index of the player holding the highest
\* double among all hands; with no double in any hand, the index of the player
\* holding the tile with the highest pip sum, the first such tile met when walking
\* players in order and each hand in order.
C13_StartingPlayer ==
  /\ \A g \in Evaluated :
       LET players == g.players
           r == findStartingPlayer(players) + 1
       IN  IF HeldDoubles(players) # {}
           THEN \E c \in HeldDoubles(players) :
                  /\ c[1] = r
                  /\ \A d \in HeldDoubles(players) : CellPips(players, d) <= CellPips(players, c)
           ELSE IF HeldCells(players) # {}
           THEN \E c \in HeldCells(players) :
                  /\ c[1] = r
                  /\ \A d \in HeldCells(players) :
                       \/ CellPips(players, d) < CellPips(players, c)
                       \/ (CellPips(players, d) = CellPips(players, c) /\ ~CellBefore(d, c))
           ELSE r = 1
  /\ last.op = "findStartingPlayer" =>
       gameState.currentPlayerIndex = findStartingPlayer(last.pre.players)

\* C13 witness: no hand holds a double, two players hold tiles of the same highest
\* pip sum, and the round starts with the earlier of them.
C13_Witness ==
  /\ last.op = "findStartingPlayer"
  /\ HeldDoubles(gameState.players) = {}
  /\ \E c, d \in HeldCells(gameState.players) :
       /\ c[1] = gameState.currentPlayerIndex + 1
       /\ d[1] > c[1]
       /\ CellPips(gameState.players, c) = CellPips(gameState.players, d)
       /\ \A e \in HeldCells(gameState.players) :
            CellPips(gameState.players, e) <= CellPips(gameState.players, c)

\* C14: getPlayablePositions returns exactly ['left'] on an empty board, and otherwise
\* contains 'left' iff one of the tile's values equals board[0].leftDots and 'right'
\* iff one of them equals the last tile's rightDots (both when both match);
\* canPlayTile(tile, board) is true iff getPlayablePositions(tile, board) is non-empty.
C14_PlayablePositions ==
  \A tile \in OrientedTiles :
    LET board == gameState.board
        positions == getPlayablePositions(tile, board)
        values == {tile.leftDots, tile.rightDots}
    IN  /\ canPlayTile(tile, board) <=> positions # <<>>
        /\ IF board = <<>> THEN positions = <<"left">>
           ELSE /\ Includes(positions, "left") <=> board[1].leftDots \in values
                /\ Includes(positions, "right") <=> board[Len(board)].rightDots \in values
                /\ Len(positions) = Cardinality({p \in Positions : Includes(positions, p)})

\* C14 witness: a tile was played at the right end of a board whose two open ends
\* differ and both matched it, and the new board has a tile that fits neither end.
C14_Witness ==
  /\ AcceptedPlay
  /\ last.position = "right"
  /\ Len(last.snap.board) > 0
  /\ last.snap.board[1].leftDots # last.snap.board[Len(last.snap.board)].rightDots
  /\ getPlayablePositions(CurrentPlayer(last.snap).hand[1], last.snap.board) = <<"left", "right">>
  /\ \E tile \in OrientedTiles : getPlayablePositions(tile, gameState.board) = <<>>

\* tiles is a complete double-n set: one tile per unordered pair of pips 0..maxPip,
\* ids pairwise distinct, isDouble exactly on the tiles with equal halves
CompleteSet(tiles, maxPip) ==
  /\ Len(tiles) = ((maxPip + 1) * (maxPip + 2)) \div 2
  /\ \A x, y \in 1..Len(tiles) : tiles[x].id = tiles[y].id => x = y
  /\ \A a, b \in 0..maxPip :
       a <= b => Cardinality({x \in 1..Len(tiles) :
                                {tiles[x].leftDots, tiles[x].rightDots} = {a, b}}) = 1
  /\ \A x \in 1..Len(tiles) : tiles[x].isDouble <=> tiles[x].leftDots = tiles[x].rightDots

FullSetsComplete ==
  \A seed \in Seeds : CompleteSet(FullDominoSets[seed], FullPip) /\ Len(FullDominoSets[seed]) = 28

ScaledSetsComplete == \A seed \in Seeds : CompleteSet(createDominoSet(seed), MaxPip)

\* the tiles of a deal: the hands in player order, then the boneyard
RECURSIVE AllHands(_, _)
AllHands(players, i) ==
  IF i > Len(players) THEN <<>> ELSE players[i].hand \o AllHands(players, i + 1)

\* C15: createDominoSet returns exactly 28 tiles with pairwise distinct ids, each
\* unordered pip pair (a,b), 0<=a<=b<=6, exactly once, isDouble true exactly for
\* leftDots = rightDots (also at the size of the sets dealt here: 10 tiles, pips 0..3).
C15_DominoSetComplete ==
  /\ FullSetsComplete
  /\ ScaledSetsComplete
  /\ last.op = "startNewGame" =>
       CompleteSet(AllHands(gameState.players, 1) \o gameState.boneyard, MaxPip)

\* C15 witness: a game was started from the set and the user's first hand holds a
\* double and a tile that is not one, while the 28-tile set holds the 6-6.
C15_Witness ==
  /\ last.op = "startNewGame"
  /\ \E k, n \in 1..Len(gameState.players[1].hand) :
       /\ gameState.players[1].hand[k].isDouble
       /\ ~gameState.players[1].hand[n].isDouble
  /\ \E seed \in Seeds : \E x \in 1..28 :
       FullDominoSets[seed][x].leftDots = 6 /\ FullDominoSets[seed][x].rightDots = 6

\* hands and boneyard hold no tile twice, within a part or across parts
Disjoint(hands, boneyard) ==
  LET all == AllHands([i \in 1..Len(hands) |-> [hand |-> hands[i]]], 1) \o boneyard
  IN  \A x, y \in 1..Len(all) : all[x].id = all[y].id => x = y

\* a deal of a 28-tile set to playerCount players conserves the tiles
Conserved(hands, boneyard, playerCount) ==
  /\ Len(hands) = playerCount
  /\ \A i \in 1..playerCount : Len(hands[i]) = IF playerCount = 2 THEN 7 ELSE 6
  /\ Disjoint(hands, boneyard)
  /\ SeqSum([i \in 1..playerCount |-> Len(hands[i])]) + Len(boneyard) = 28

\* the GameContext deal of every full set to 2, 3 and 4 players conserves the tiles and
\* equals the gameUtils deal
ContextDealsConserved ==
  \A seed \in Seeds, playerCount \in PlayerCounts :
    LET dealt == contextDealTiles(NewPlayers(playerCount - 1), FullDominoSets[seed],
                                  FullPerTwo, FullPerMany)
        hands == [i \in 1..Len(dealt.updatedPlayers) |-> dealt.updatedPlayers[i].hand]
        utils == gameUtilsDealTiles(FullDominoSets[seed], playerCount, FullPerTwo, FullPerMany)
    IN  /\ Conserved(hands, dealt.remainingTiles, playerCount)
        /\ hands = utils.hands
        /\ dealt.remainingTiles = utils.boneyard

\* C16: for a 28-tile set and 2, 3 or 4 players, gameUtils.dealTiles and the GameContext
\* dealTiles give every player 7 tiles (2 players) or 6 tiles (3 or 4), the hands and the
\* boneyard are pairwise disjoint, and the hand sizes plus the boneyard size sum to 28.
C16_DealConservation ==
  /\ ContextDealsConserved
  /\ last.op = "dealTiles" =>
       Conserved([i \in Players(gameState) |-> gameState.players[i].hand],
                 gameState.boneyard, Len(gameState.players))

\* C16 witness: a 28-tile set was dealt to four players, leaving a boneyard of four.
C16_Witness ==
  /\ last.op = "dealTiles"
  /\ Len(gameState.players) = 4
  /\ Len(gameState.boneyard) = 4
  /\ Len(gameState.players[4].hand) = 6

\* how often the tile with this id occurs in tiles
Occurrences(tiles, id) == Cardinality({x \in 1..Len(tiles) : tiles[x].id = id})

\* b holds the elements of a, each as often as a does
Permutation(a, b) ==
  /\ Len(a) = Len(b)
  /\ \A x \in 1..Len(a) : Occurrences(b, a[x].id) = Occurrences(a, a[x].id)
  /\ \A x \in 1..Len(b) : \E y \in 1..Len(a) : a[y] = b[x]

\* C17: shuffleArray(array, seed) called again with the same array and seed, wherever
\* Math.random stands, returns the identical permutation; with or without a seed the
\* result is a permutation of the input and the input array is left as it was.
C17_SeededShuffle ==
  last.op = "shuffleArray" =>
    /\ Permutation(last.pre.boneyard, gameState.boneyard)
    /\ last.snap.boneyard = last.pre.boneyard
    /\ last.tileId # Undefined =>
         \A random \in Seeds :
           shuffleArrayCall(last.pre.boneyard, last.tileId, random).shuffled = gameState.boneyard

\* C17 witness: a seeded shuffle of three different tiles that moved a tile.
C17_Witness ==
  /\ last.op = "shuffleArray"
  /\ last.tileId # Undefined
  /\ Len(last.pre.boneyard) = 3
  /\ \A x, y \in 1..3 : last.pre.boneyard[x] = last.pre.boneyard[y] => x = y
  /\ gameState.boneyard # last.pre.boneyard

\* the hands of a state, in player order
Hands(g) == [i \in Players(g) |-> g.players[i].hand]

\* C18: two participants who each build a deal from the same seed (createDominoSet(), then
\* shuffleArray(set, seed), then the deal for the same player list) obtain identical hands
\* and an identical boneyard.  Stated for the deal a participant built against the deal a
\* second participant builds from the same seed, wherever its Math.random stands.
C18_SameSeedSameDeal ==
  last.op = "startMultiplayerGame" =>
    \A random \in Seeds :
      LET other == multiplayerGameState(Len(gameState.players), last.tileId, random)
      IN  Hands(other) = Hands(gameState) /\ other.boneyard = gameState.boneyard

\* every participant is in the game and nothing is under way: each service holds the
\* latest room record and no write of a GameState is pending
Delivered ==
  /\ multiplayer.provider \in Providers
  /\ \A p \in Participants :
       /\ multiplayer.seen[p]
       /\ multiplayer.writing[p] = NullState
       /\ multiplayer.page[p] = "game"
       /\ ~multiplayer.isInitializing[p]

\* C19: when a multiplayer game starts, exactly one participant, the host, constructs the
\* initial GameState; a participant that is not the host never constructs its own and only
\* takes the one replicated in the room record.
C19_OnlyHostBuilds ==
  multiplayer.provider \in Providers =>
    /\ multiplayer.built \subseteq {HostId}
    /\ \A p \in Participants \ {HostId} :
         multiplayer.gameState[p] # NullState =>
           multiplayer.gameState[p] = multiplayer.store.gameState
    /\ Delivered => multiplayer.built = {HostId}

\* C20: once all pending room updates have been delivered, every participant's local
\* GameState equals the host's (hands, board, boneyard, turn pointer, scores), right after
\* the game starts and after every accepted move; a peer that receives a room record with
\* a GameState while holding none adopts it verbatim.
C20_Consistent ==
  Delivered =>
    \A p \in Participants :
      /\ multiplayer.gameState[p] # NullState
      /\ multiplayer.gameState[p] = multiplayer.gameState[HostId]

\* ---------------------------------------------------------------- room claims
\* the step just taken finished (or rejected) a call of the named service method
Finished(op, outcome) ==
  /\ multiplayer.provider = "lobby"
  /\ multiplayer.done.op = op
  /\ multiplayer.done.outcome = outcome

HasId(players, userId) == \E k \in 1..Len(players) : players[k].id = userId

\* C21: joinRoom rejects, leaving the stored record and the caller's current room as
\* they were, exactly when the room it read does not exist, is not waiting, has
\* playerCount roster entries already or holds the user's id; otherwise the roster it
\* persists and returns is the roster it read with one entry appended for the user,
\* isHost and isReady both false.
C21_JoinRoom ==
  multiplayer.provider = "lobby" /\ multiplayer.done.op = "joinRoom" =>
    LET done == multiplayer.done
        room == done.read
        user == done.client
        refused == \/ room.status = "absent"
                   \/ room.status # "waiting"
                   \/ Len(room.players) >= room.playerCount
                   \/ HasId(room.players, user)
        entry == [id |-> user, name |-> user, isHost |-> FALSE, isReady |-> FALSE]
    IN  /\ (done.outcome = "rejected") <=> refused
        /\ done.outcome = "rejected" =>
             /\ multiplayer.store = done.store
             /\ multiplayer.currentRoom[user] = done.local
        /\ done.outcome = "applied" =>
             /\ multiplayer.store.players = room.players \o <<entry>>
             /\ multiplayer.currentRoom[user].players = room.players \o <<entry>>

\* a third user is refused by a full room of two that a second user has joined
C21_Witness ==
  /\ Finished("joinRoom", "rejected")
  /\ multiplayer.done.reason = "full"
  /\ multiplayer.store.playerCount = 2
  /\ Len(multiplayer.store.players) = 2
  /\ ~multiplayer.store.players[2].isHost
  /\ multiplayer.store = multiplayer.done.store

\* C22: leaveRoom takes the leaving player's entry out of the roster of the caller's
\* room; an empty roster deletes the record; otherwise the remaining entries are
\* persisted in their order with their flags, and when the host left, the first of them
\* has isHost set and names the room's hostId and hostName.
C22_LeaveRoom ==
  Finished("leaveRoom", "applied") =>
    LET done == multiplayer.done
        room == done.local
        user == done.client
        Stays(p) == p.id # user
        stay == SelectSeq(room.players, Stays)
        stored == multiplayer.store
        promoted == room.hostId = user
    IN  /\ multiplayer.currentRoom[user] = AbsentRoom
        /\ stay = <<>> => stored = AbsentRoom
        /\ stay # <<>> =>
             /\ ~HasId(stored.players, user)
             /\ Len(stored.players) = Len(stay)
             /\ \A k \in 1..Len(stay) :
                  /\ stored.players[k].id = stay[k].id
                  /\ stored.players[k].name = stay[k].name
                  /\ stored.players[k].isReady = stay[k].isReady
                  /\ stored.players[k].isHost = (stay[k].isHost \/ (promoted /\ k = 1))
             /\ promoted => /\ stored.hostId = stay[1].id
                            /\ stored.hostName = stay[1].name
             /\ ~promoted /\ done.store.status # "absent" =>
                  /\ stored.hostId = done.store.hostId
                  /\ stored.hostName = done.store.hostName

\* the host left a room in which two players remain
C22_Witness ==
  /\ Finished("leaveRoom", "applied")
  /\ multiplayer.done.local.hostId = multiplayer.done.client
  /\ Len(multiplayer.store.players) = 2
  /\ multiplayer.store.players[1].isHost
  /\ ~multiplayer.store.players[2].isHost
  /\ multiplayer.store.hostId = multiplayer.store.players[1].id

\* the record a finished call worked on: the stored record for the Firebase service's
\* field updates, the caller's room (the room read, for joinRoom) for the local service
WorkedOn ==
  LET done == multiplayer.done
  IN  IF multiplayer.transport = "firebase" THEN done.store
      ELSE IF done.op = "joinRoom" THEN done.read
      ELSE done.local

AllReadyOrHost(room) ==
  \A k \in 1..Len(room.players) : room.players[k].isReady \/ room.players[k].isHost

\* C23: a call that persists status playing for a room that was waiting is a startGame
\* whose caller's room had every roster entry ready or host; startGame with no current room, or with a
\* non-host entry that is not ready, changes neither the stored record nor the caller's
\* room; toggleReady changes nothing when the caller is the host, and otherwise flips
\* the caller's isReady and nothing else.
C23_StartAndReady ==
  multiplayer.provider = "lobby" =>
    LET done == multiplayer.done
        user == done.client
        room == done.local
        stored == multiplayer.store
    IN  /\ done.outcome = "applied" /\ WorkedOn.status = "waiting"
                                      /\ stored.status = "playing" =>
             /\ done.op = "startGame"
             /\ room.status # "absent"
             /\ AllReadyOrHost(room)
        /\ done.op = "startGame" /\ (room.status = "absent" \/ ~AllReadyOrHost(room)) =>
             /\ done.outcome = "rejected"
             /\ stored = done.store
             /\ multiplayer.currentRoom[user] = room
        /\ done.op = "toggleReady" /\ done.outcome \in {"rejected", "applied"} =>
             LET Mine(k) == room.players[k].id = user
                 mine == {k \in 1..Len(room.players) : Mine(k)}
                 asHost == \E k \in mine : k = Min(mine) /\ room.players[k].isHost
             IN  /\ (done.outcome = "rejected") <=> (mine = {} \/ asHost)
                 /\ done.outcome = "rejected" =>
                      /\ stored = done.store
                      /\ multiplayer.currentRoom[user] = room
                 /\ done.outcome = "applied" =>
                      /\ Len(stored.players) = Len(room.players)
                      /\ \A k \in 1..Len(room.players) :
                           stored.players[k] =
                             IF k = Min(mine)
                             THEN [room.players[k] EXCEPT !.isReady = ~@]
                             ELSE room.players[k]
                      /\ \A k \in 1..Len(room.players) :
                           room.players[k].isHost =>
                             stored.players[k].isReady = room.players[k].isReady

\* the host started the game after the joined player had made itself ready
C23_Witness ==
  /\ Finished("startGame", "applied")
  /\ multiplayer.done.store.status = "waiting"
  /\ multiplayer.store.status = "playing"
  /\ Len(multiplayer.store.players) = 2
  /\ multiplayer.store.players[2].isReady
  /\ ~multiplayer.store.players[2].isHost

\* C24: when the store write of joinRoom, leaveRoom, toggleReady or startGame fails, the
\* caller's room (roster, isReady and isHost flags, hostId, status) is what it was before
\* the call, unless the change listener replaced it meanwhile.
C24_FailedWriteNotApplied ==
  /\ multiplayer.provider = "lobby"
  /\ multiplayer.done.outcome = "failed"
  /\ multiplayer.done.reason # "heard"
  => multiplayer.currentRoom[multiplayer.done.client] = multiplayer.done.local

DistinctIds(players) ==
  \A j, k \in 1..Len(players) : players[j].id = players[k].id => j = k

\* C25: whatever the order in which the clients' createRoom, joinRoom, leaveRoom,
\* toggleReady and startGame calls and their writes reach the store, the stored roster
\* has at most playerCount entries (the playerCount the room was created with, where a
\* write has re-created a removed record without its settings) and no player id twice.
C25_RosterBound ==
  multiplayer.provider = "lobby" =>
    LET stored == multiplayer.store
    IN  /\ DistinctIds(stored.players)
        /\ stored.playerCount # 0 => Len(stored.players) <= stored.playerCount
        /\ Len(stored.players) <= multiplayer.playerCount

\* two users had read the same roster of a room of two with one seat left, and both
\* wrote theirs: the later write stands
C25_Witness ==
  /\ Finished("joinRoom", "applied")
  /\ multiplayer.transport = "firebase"
  /\ multiplayer.done.store.playerCount = 2
  /\ Len(multiplayer.done.store.players) = 2
  /\ Len(multiplayer.done.read.players) = 1
  /\ Len(multiplayer.store.players) = 2
  /\ multiplayer.store.players # multiplayer.done.store.players

\* ---------------------------------------------------------------- round end and timers
\* C26 as stated: in no state that is reached, and in no state isRoundOver is asked
\* about, is some hand empty while no player holds a playable tile and the boneyard is
\* empty.
C26_Exclusive ==
  /\ gameState.gameStatus # "null" => ~(SomeHandEmpty(gameState) /\ Blocked(gameState))
  /\ AcceptedPlay => ~(SomeHandEmpty(AfterPlay) /\ Blocked(AfterPlay))

\* C26, amended: the two situations can hold together, when the last tile of a hand is
\* played, the boneyard is empty and nobody else holds a match; the round is then
\* ended as a domino, won by the player whose hand is empty, and it is ended as blocked,
\* won by a lowest hand, only when no hand is empty.
C26_DominoFirst ==
  AcceptedPlay /\ isRoundOver(AfterPlay) =>
    LET winner == getRoundWinner(AfterPlay)
    IN  /\ SomeHandEmpty(AfterPlay) \/ Blocked(AfterPlay)
        /\ winner # 0
        /\ SomeHandEmpty(AfterPlay) =>
             /\ Len(AfterPlay.players[winner].hand) = 0
             /\ \A i \in 1..(winner - 1) : Len(AfterPlay.players[i].hand) # 0
        /\ ~SomeHandEmpty(AfterPlay) =>
             \A i \in 1..Len(AfterPlay.players) :
               calculateHandScore(AfterPlay.players[winner].hand)
                 <= calculateHandScore(AfterPlay.players[i].hand)

\* a player's last tile was played, nothing is left to draw, and no tile still held
\* matches an open end
C26_Witness ==
  /\ AcceptedPlay
  /\ SomeHandEmpty(AfterPlay)
  /\ Blocked(AfterPlay)

\* C27: a game that is playing is never left in a blocked state (no player holds a
\* playable tile and the boneyard is empty): whichever of a play, a draw or a pass
\* produced it also ended the round, so the state that follows is a new round or the
\* finished game.
C27_BlockedEndsRound ==
  gameState.gameStatus = "playing" => ~Blocked(gameState)

\* C28: whenever the game is playing and the current player is a computer player, a move
\* timer is pending for that player (so that the player then plays, draws or passes),
\* also when a new round starts with the currentPlayerIndex the state before it had.
C28_ComputerTimerPending ==
  gameState.gameStatus = "playing" /\ CurrentPlayer(gameState).isComputer =>
    /\ moveTimer # <<>>
    /\ CurrentPlayer(moveTimer[1]).id = CurrentPlayer(gameState).id

\* C29: once resetGame has set the GameState to null, no timer callback scheduled
\* before it changes the GameState: a state that was null stays null until startNewGame
\* builds the next game.
C29_NullUntilNewGame ==
  last.pre.gameStatus = "null" /\ gameState.gameStatus # "null" => last.op = "startNewGame"

\* the computer's draw, and the pass that the check after its draw made
ComputerDrew == last.op = "draw" /\ CurrentPlayer(last.snap).isComputer

PassedAfterDraw ==
  /\ last.op = "pass"
  /\ CurrentPlayer(last.snap).isComputer
  /\ Len(last.snap.boneyard) > 0

\* C30: a computer player without a playable tile and with a boneyard to draw from
\* draws exactly one tile and keeps it in its hand; within the same turn it plays when
\* its hand then holds a playable tile, and passes only when it still holds none.
C30_DrawThenPlayOrPass ==
  LET who == last.snap.currentPlayerIndex + 1
      before == last.snap.players[who].hand
  IN  /\ ComputerDrew =>
           /\ gameState.players[who].hand = Append(before, last.snap.boneyard[1])
           /\ gameState.boneyard = Tail(last.snap.boneyard)
           /\ gameState.currentPlayerIndex = last.snap.currentPlayerIndex
      /\ PassedAfterDraw =>
           LET held == last.pre.players[who].hand
           IN  /\ Len(held) = Len(before) + 1
               /\ gameState.players[who].hand = held
               /\ \A k \in 1..Len(held) : ~Fits(held[k], last.pre.board)

\* ---------------------------------------------------------------- computer moves
\* the last operation was a move made while a computer player was on turn
ComputerTurnMove ==
  /\ last.op = "makeMove"
  /\ last.case = "legal"
  /\ CurrentPlayer(last.snap).isComputer
  /\ CurrentPlayer(last.pre).isComputer

Pips(tile) == tile.leftDots + tile.rightDots

\* what C31 says of the move recorded in op, submitted while g was displayed
ComputerTileOk(op, g) ==
  LET hand == CurrentPlayer(g).hand
      held == {k \in 1..Len(hand) : hand[k].id = op.tileId}
      playable == {k \in 1..Len(hand) : Fits(hand[k], g.board)}
      doubles == {k \in playable : hand[k].leftDots = hand[k].rightDots}
  IN  /\ op.op = "makeMove"
      /\ op.case = "legal"
      /\ g.gameStatus = "playing"
      /\ CurrentPlayer(g).isComputer
      /\ held # {}
      /\ \A k \in held :
           /\ k \in playable
           /\ g.board # <<>> =>
                (IF op.position = "left" THEN g.board[1].leftDots
                 ELSE g.board[Len(g.board)].rightDots)
                  \in {hand[k].leftDots, hand[k].rightDots}
           /\ g.board = <<>> => op.position = "left"
           /\ difficulty = "medium" => \A j \in playable : Pips(hand[j]) <= Pips(hand[k])
           /\ difficulty = "hard" =>
                IF doubles # {}
                THEN k \in doubles /\ \A j \in doubles : Pips(hand[j]) <= Pips(hand[k])
                ELSE \A j \in playable : Pips(hand[j]) <= Pips(hand[k])

\* C31: every tile handleComputerMove submits is in the hand of the computer player on
\* turn, fits the board that is displayed, and goes to an end it matches, so makeMove
\* accepts it; on medium it has the highest pip sum of the playable tiles of the hand,
\* on hard it is the highest playable double if the hand has a playable double and the
\* highest playable tile otherwise.
C31_ComputerTile == [][ComputerPlay => ComputerTileOk(last', gameState)]_vars

\* on hard a computer player with two playable tiles played a double although it held
\* a playable tile with more pips
C31_Witness ==
  /\ ComputerTurnMove
  /\ difficulty = "hard"
  /\ LET hand == CurrentPlayer(last.pre).hand
     IN  \E j, k \in 1..Len(hand) :
           /\ hand[k].id = last.tileId
           /\ hand[k].leftDots = hand[k].rightDots
           /\ Fits(hand[j], last.pre.board)
           /\ Pips(hand[j]) > Pips(hand[k])

\* ---------------------------------------------------------------- room events
\* the last step was the listener of some client called with a snapshot of an existing
\* record while the service held a room
SnapshotHeard ==
  /\ Finished("onValue", "applied")
  /\ multiplayer.done.store.status # "absent"
  /\ multiplayer.done.local.status # "absent"

\* C32: on a snapshot of the room the service emits player_joined exactly for the ids in
\* the new roster and not in the roster it held, player_left exactly for the ids in the
\* roster it held and not in the new one, and game_started exactly when the status it
\* held is waiting and the new status is playing; no client's service emits game_started
\* a second time for the room.
C32_ListenerEvents ==
  /\ SnapshotHeard =>
       LET previous == multiplayer.done.local
           updated == multiplayer.done.store
           emitted == multiplayer.emitted
       IN  /\ \A id \in LobbyClients :
                /\ Event("player_joined", id) \in emitted
                     <=> (HasId(updated.players, id) /\ ~HasId(previous.players, id))
                /\ Event("player_left", id) \in emitted
                     <=> (HasId(previous.players, id) /\ ~HasId(updated.players, id))
           /\ Event("game_started", 0) \in emitted
                <=> (previous.status = "waiting" /\ updated.status = "playing")
  /\ (multiplayer.provider = "lobby" /\ multiplayer.transport = "firebase") =>
       \A c \in LobbyClients : multiplayer.started[c] <= 1

\* ---------------------------------------------------------------- tiles
\* the tiles of a game state: the hands in player order, the board, the boneyard
TilesOf(g) == AllHands(g.players, 1) \o g.board \o g.boneyard

\* C33: in every state of a game the tile ids in the hands, on the board and in the
\* boneyard are together the ids of the set, each exactly once (the 28 ids of the
\* double-six set; here the ids of the set the games of the model are dealt from).
C33_TileConservation ==
  gameState.gameStatus # "null" =>
    LET tiles == TilesOf(gameState)
    IN  /\ Len(tiles) = TileCount
        /\ \A id \in AllTileIds : \E k \in 1..Len(tiles) : tiles[k].id = id
        /\ \A j, k \in 1..Len(tiles) : tiles[j].id = tiles[k].id => j = k

\* the pass of the callback set after a computer draw, made from the state before the
\* draw, in a round with tiles on the board and a boneyard drawn from
C33_Witness ==
  /\ last.op = "pass"
  /\ last.snap # last.pre
  /\ Len(last.pre.boneyard) < Len(last.snap.boneyard)
  /\ gameState.board # <<>>
  /\ gameState.gameStatus = "playing"

\* ---------------------------------------------------------------- timer callbacks
\* the last operation left the game in the round it was in
SameRound ==
  /\ last.pre.gameStatus = "playing"
  /\ gameState.gameStatus # "null"
  /\ last.op # "startNewGame"
  /\ gameState.round = last.pre.round

OnBoard(g, id) == \E k \in 1..Len(g.board) : g.board[k].id = id

InSomeHand(g, id) ==
  \E i \in Players(g) : \E k \in 1..Len(g.players[i].hand) : g.players[i].hand[k].id = id

\* C34: within a round no operation, a timer callback included, takes back what was
\* applied before it: the boneyard does not grow, and every tile that was on the board
\* is still on the board and in no hand.
C34_NoRollback ==
  SameRound =>
    /\ Len(gameState.boneyard) <= Len(last.pre.boneyard)
    /\ \A id \in AllTileIds :
         OnBoard(last.pre, id) => OnBoard(gameState, id) /\ ~InSomeHand(gameState, id)

\* C35: a finished game stays as it is, status, winner and scores included, until
\* resetGame or startNewGame: no move, pass, draw or timer callback changes its state.
C35_FinishedStays ==
  (last.pre.gameStatus = "finished" /\ last.op \notin {"startNewGame", "resetGame"}) =>
    gameState = last.pre

\* ---------------------------------------------------------------- room under interleavings
\* C36: whenever the stored room has a roster and a hostId, exactly one roster entry
\* has isHost true, and that entry's id is the room's hostId, whatever the order in
\* which the clients' joinRoom, leaveRoom and toggleReady writes arrive.
C36_OneHost ==
  (/\ multiplayer.provider = "lobby"
   /\ multiplayer.store.players # <<>>
   /\ multiplayer.store.hostId # 0) =>
    LET room == multiplayer.store
        hosts == {k \in 1..Len(room.players) : room.players[k].isHost}
    IN  /\ Cardinality(hosts) = 1
        /\ \A k \in hosts : room.players[k].id = room.hostId

\* C37: once the status stored in Firebase is playing the roster gains no member: no
\* step taken while the stored room was playing, a joinRoom write that overlaps
\* startGame included, leaves an id in the stored roster that was not in it before.
C37_NoJoinAfterStart ==
  (/\ multiplayer.provider = "lobby"
   /\ multiplayer.transport = "firebase"
   /\ multiplayer.done.store.status = "playing") =>
    \A id \in LobbyClients :
      HasId(multiplayer.store.players, id) => HasId(multiplayer.done.store.players, id)

\* the last step completed the leaveRoom of the only player of the caller's room: its
\* write was the removal of the record
LastPlayerLeft ==
  /\ Finished("leaveRoom", "applied")
  /\ multiplayer.transport = "firebase"
  /\ multiplayer.done.write.kind = "remove"

\* C38: when the only remaining player's leaveRoom has completed, the record is deleted,
\* the client holds no current room and no subscription to the room, and player_left
\* was emitted for that user, also when the room listener was called between the
\* removal and the continuation of leaveRoom.
C38_LastPlayerLeaves ==
  LastPlayerLeft =>
    LET user == multiplayer.done.client
    IN  /\ multiplayer.store = AbsentRoom
        /\ multiplayer.currentRoom[user] = AbsentRoom
        /\ ~multiplayer.listening[user]
        /\ Event("player_left", user) \in multiplayer.emitted

\* ---------------------------------------------------------------- settings
\* C39: the game that startNewGame(settings) builds has exactly settings.playerCount
\* players, between two and four: the user first and computer players after, for every
\* settings value the settings page produces.
C39_PlayerCount ==
  [][SettingsStartGame =>
       /\ Len(gameState'.players) = localSettings.playerCount
       /\ Len(gameState'.players) \in PlayerCounts
       /\ \A i \in 1..Len(gameState'.players) :
            gameState'.players[i].isComputer <=> i > 1]_vars

====
